---- MODULE Spec2Model ----
(***************************************************************************)
(* A model of Esprit's multi-provider LLM dispatch layer: the account      *)
(* pool (esprit/providers/account_pool.py), the pricing catalog            *)
(* (esprit/llm/pricing.py) and the dispatch core (esprit/llm/llm.py).      *)
(*                                                                         *)
(* Times are milliseconds, as in the pool (time.time() * 1000).  Python    *)
(* None is the value None below; list positions are 0-based as in the      *)
(* source, so accounts[i] of the source is At(accounts, i).                *)
(***************************************************************************)
EXTENDS Integers, Sequences, FiniteSets, TLC

----------------------------------------------------------------------------
(* Bounds of the model.                                                    *)

\* how many times the clock advances in one behaviour of the pool
MaxTicks == 2
\* how many mark_rate_limited calls are made in one behaviour of the pool
MaxMarks == 2
\* how many consecutive 429s an account loaded from accounts.json may carry
MaxPrior == 3
\* length of a run of back-to-back rotate calls that is recorded
MaxRun == 4
\* how many thousand tokens above the tier threshold a count may lie
MaxOver == 100
\* how many generate calls are made on the LLM instance
MaxCalls == 2
\* how many symbols of text one attempt may receive
MaxLen == 2

----------------------------------------------------------------------------
(* Python values.                                                          *)

None == -1
NoModel == ""
NoEmail == ""

\* Python truthiness of an optional int: None and 0 are falsy
Truthy(x) == x # None /\ x # 0

Min(a, b) == IF a <= b THEN a ELSE b
Max(a, b) == IF a >= b THEN a ELSE b

SetMin(S) == CHOOSE x \in S : \A y \in S : x <= y

----------------------------------------------------------------------------
(* The account pool: esprit/providers/account_pool.py                      *)

BACKOFF_TIERS_S == <<60, 300, 1800, 7200>>
BACKOFF_RESET_S == 120

Emails == {"a@x", "b@y", "c@z"}
EmailOrder == <<"a@x", "b@y", "c@z">>
\* bare model names used as rate-limit keys
Models == {"gpt-5"}
Strategies == {"sticky", "round-robin"}
\* Retry-After values (seconds) handed to mark_rate_limited
ResetSeconds == {30, 3600}
\* how far the clock may advance between two calls (ms)
TickSteps == {10000, 60000, 121000}
StartTime == 1000000
\* how long before the start the latest 429 of a loaded account happened (ms)
PriorAgo == 10000

EmptyLimits == [m \in {} |-> 0]

\* AccountEntry(email=..., credentials=..., added_at=...) with the defaults
\* of the dataclass
AccountEntry(email, credentials) ==
    [email |-> email, credentials |-> credentials, enabled |-> TRUE,
     last_used |-> None, rate_limits |-> EmptyLimits, cooling_until |-> None,
     consecutive_429s |-> 0, last_429_at |-> None]

At(accounts, i) == accounts[i + 1]
Indices(accounts) == 0 .. (Len(accounts) - 1)

\* rate_limits with the entries whose reset time has passed deleted
UnexpiredLimits(rl, now_ms) ==
    LET kept == {m \in DOMAIN rl : ~(rl[m] <= now_ms)}
    IN  [m \in kept |-> rl[m]]

\* a variant that forgets the 429 streak after half the reset window
_clear_expired_limits_half_window(accounts, now_ms) ==
    [k \in DOMAIN accounts |->
        LET acct == accounts[k] IN
        [acct EXCEPT
            !.rate_limits = UnexpiredLimits(acct.rate_limits, now_ms),
            !.cooling_until =
                IF Truthy(acct.cooling_until) /\ acct.cooling_until <= now_ms
                THEN None ELSE acct.cooling_until,
            !.consecutive_429s =
                IF Truthy(acct.last_429_at)
                   /\ (now_ms - acct.last_429_at) > BACKOFF_RESET_S * 500
                THEN 0 ELSE acct.consecutive_429s]]

\* _clear_expired_limits, as it acts on the AccountEntry objects
_clear_expired_limits(accounts, now_ms) ==
    [k \in DOMAIN accounts |->
        LET acct == accounts[k] IN
        [acct EXCEPT
            !.rate_limits = UnexpiredLimits(acct.rate_limits, now_ms),
            !.cooling_until =
                IF Truthy(acct.cooling_until) /\ acct.cooling_until <= now_ms
                THEN None ELSE acct.cooling_until,
            !.consecutive_429s =
                IF Truthy(acct.last_429_at)
                   /\ (now_ms - acct.last_429_at) > BACKOFF_RESET_S * 1000
                THEN 0 ELSE acct.consecutive_429s]]

\* What _clear_expired_limits does to the cached pool when the accounts are
\* not saved: _dict_to_account hands each AccountEntry the very rate_limits
\* dict of the cached pool, so the deletions reach the pool; the assignments
\* to cooling_until and consecutive_429s stay on the AccountEntry copies.
_dict_to_account_shared(accounts, now_ms) ==
    [k \in DOMAIN accounts |->
        [accounts[k] EXCEPT
            !.rate_limits = UnexpiredLimits(accounts[k].rate_limits, now_ms)]]

NotCooling(acct, now_ms) ==
    ~Truthy(acct.cooling_until) \/ acct.cooling_until <= now_ms

\* variant: when every enabled account is cooling, falls back to all accounts
PeekAvailable_all_accounts(accounts, now_ms, model) ==
    LET free == {i \in Indices(accounts) :
                    At(accounts, i).enabled /\ NotCooling(At(accounts, i), now_ms)}
        available == IF free # {} THEN free ELSE Indices(accounts)
        not_limited == {i \in available : model \notin DOMAIN At(accounts, i).rate_limits}
    IN  IF model # NoModel /\ not_limited # {} THEN not_limited ELSE available

\* the candidates of peek_best_account, as positions
PeekAvailable(accounts, now_ms, model) ==
    LET free == {i \in Indices(accounts) :
                    At(accounts, i).enabled /\ NotCooling(At(accounts, i), now_ms)}
        available == IF free # {} THEN free
                     ELSE {i \in Indices(accounts) : At(accounts, i).enabled}
        not_limited == {i \in available : model \notin DOMAIN At(accounts, i).rate_limits}
    IN  IF model # NoModel /\ not_limited # {} THEN not_limited ELSE available

\* variant: the highest position after active_idx instead of the lowest
RoundRobinFirst_highest(available, active_idx) ==
    LET after == {i \in available : ~(i <= active_idx)}
    IN  IF after # {} THEN -SetMin({-i : i \in after}) ELSE SetMin(available)

\* available.sort(key=lambda x: (x[0] <= active_idx, x[0])); available[0]
RoundRobinFirst(available, active_idx) ==
    LET after == {i \in available : ~(i <= active_idx)}
    IN  IF after # {} THEN SetMin(after) ELSE SetMin(available)

\* sticky: the active account when it is a candidate, else available[0]
StickyFirst(available, active_idx) ==
    IF active_idx \in available THEN active_idx ELSE SetMin(available)

\* peek_best_account: [pool: the cached pool afterwards, idx: the position of
\* the account returned or None]
peek_best_account(pool, now_ms, model) ==
    IF Len(pool.accounts) = 0 THEN [pool |-> pool, idx |-> None, saved |-> FALSE]
    ELSE
    LET chosen(available) ==
            IF available = {} THEN None
            ELSE IF pool.strategy = "round-robin"
            THEN RoundRobinFirst(available, pool.active_index)
            ELSE StickyFirst(available, pool.active_index)
    IN  [pool |-> [pool EXCEPT
                      !.accounts = _dict_to_account_shared(pool.accounts, now_ms)],
         idx |-> chosen(PeekAvailable(_clear_expired_limits(pool.accounts, now_ms),
                                      now_ms, model)),
         saved |-> FALSE]

\* variant: the rate limits of the model are not looked at
BestAvailable_ignores_model(accounts, now_ms, model) ==
    LET free == {i \in Indices(accounts) :
                    At(accounts, i).enabled /\ NotCooling(At(accounts, i), now_ms)}
    IN  IF free # {} THEN free
        ELSE {i \in Indices(accounts) : At(accounts, i).enabled}

\* the candidates of get_best_account, as positions
BestAvailable(accounts, now_ms, model) ==
    LET free == {i \in Indices(accounts) :
                    At(accounts, i).enabled /\ NotCooling(At(accounts, i), now_ms)}
        available == IF free # {} THEN free
                     ELSE {i \in Indices(accounts) : At(accounts, i).enabled}
        not_limited == {i \in available : model \notin DOMAIN At(accounts, i).rate_limits}
    IN  IF model # NoModel /\ not_limited # {} THEN not_limited ELSE available

\* get_best_account: selects, stamps last_used, moves active_index and saves
get_best_account(pool, now_ms, model) ==
    IF Len(pool.accounts) = 0 THEN [pool |-> pool, idx |-> None, saved |-> FALSE]
    ELSE
    LET \* chosen.last_used = now_ms; pool["active_index"] = chosen_idx; save
        update(accounts, chosen_idx) ==
            [pool |-> [pool EXCEPT
                          !.accounts = [accounts EXCEPT ![chosen_idx + 1].last_used = now_ms],
                          !.active_index = chosen_idx],
             idx |-> chosen_idx, saved |-> TRUE]
        choose(accounts, available) ==
            IF available = {}
            THEN [pool |-> [pool EXCEPT !.accounts =
                                _dict_to_account_shared(pool.accounts, now_ms)],
                  idx |-> None, saved |-> FALSE]
            ELSE update(accounts,
                        IF pool.strategy = "round-robin"
                        THEN RoundRobinFirst(available, pool.active_index)
                        ELSE StickyFirst(available, pool.active_index))
        loaded(accounts) == choose(accounts, BestAvailable(accounts, now_ms, model))
    IN  loaded(_clear_expired_limits(pool.accounts, now_ms))

\* position (1-based) of the first account with this email, 0 when absent
FirstWithEmail(accounts, email) ==
    IF \E k \in DOMAIN accounts : accounts[k].email = email
    THEN SetMin({k \in DOMAIN accounts : accounts[k].email = email})
    ELSE 0

\* BACKOFF_TIERS_S[min(consecutive_429s - 1, len(BACKOFF_TIERS_S) - 1)]
Cooldown(consecutive_429s) ==
    BACKOFF_TIERS_S[Min(consecutive_429s - 1, Len(BACKOFF_TIERS_S) - 1) + 1]

\* a variant that never starts the streak over
NextConsecutive_no_reset(acct, now_ms) ==
    acct.consecutive_429s + 1

\* the escalation step of mark_rate_limited
NextConsecutive(acct, now_ms) ==
    IF Truthy(acct.last_429_at)
       /\ (now_ms - acct.last_429_at) < BACKOFF_RESET_S * 1000
    THEN acct.consecutive_429s + 1
    ELSE 1

\* mark_rate_limited: no expiry pass; the first account with the email is
\* updated and the accounts are saved whether or not one was found
mark_rate_limited(pool, now_ms, email, model, reset_seconds) ==
    LET k == FirstWithEmail(pool.accounts, email)
    IN  IF k = 0 THEN [pool |-> pool, idx |-> None, saved |-> TRUE]
        ELSE
        LET acct == pool.accounts[k]
            n == NextConsecutive(acct, now_ms)
            marked == [acct EXCEPT
                !.rate_limits = [m \in DOMAIN acct.rate_limits \cup {model} |->
                                    IF m = model THEN now_ms + reset_seconds * 1000
                                    ELSE acct.rate_limits[m]],
                !.consecutive_429s = n,
                !.last_429_at = now_ms,
                !.cooling_until = now_ms + Cooldown(n) * 1000]
        IN  [pool |-> [pool EXCEPT !.accounts[k] = marked],
             idx |-> k - 1, saved |-> TRUE]

\* a variant whose offsets start at 0, the current account
RotateOffsets_from_zero(accounts, current, now_ms, model) ==
    {offset \in 0 .. (Len(accounts) - 1) :
        LET acct == At(accounts, (current + offset) % Len(accounts))
        IN  /\ acct.enabled
            /\ ~(Truthy(acct.cooling_until) /\ acct.cooling_until > now_ms)
            /\ ~(model # NoModel /\ model \in DOMAIN acct.rate_limits)}

\* the offsets 1 .. len-1 of rotate whose account passes the three tests
RotateOffsets(accounts, current, now_ms, model) ==
    {offset \in 1 .. (Len(accounts) - 1) :
        LET acct == At(accounts, (current + offset) % Len(accounts))
        IN  /\ acct.enabled
            /\ ~(Truthy(acct.cooling_until) /\ acct.cooling_until > now_ms)
            /\ ~(model # NoModel /\ model \in DOMAIN acct.rate_limits)}

\* rotate: the strategy is not consulted
rotate(pool, now_ms, model) ==
    IF Len(pool.accounts) <= 1 THEN [pool |-> pool, idx |-> None, saved |-> FALSE]
    ELSE
    LET current == pool.active_index
        \* pool["active_index"] = idx; acct.last_used = now_ms; save
        moved(accounts, idx) ==
            [pool |-> [pool EXCEPT
                          !.accounts = [accounts EXCEPT ![idx + 1].last_used = now_ms],
                          !.active_index = idx],
             idx |-> idx, saved |-> TRUE]
        scanned(accounts, offsets) ==
            IF offsets = {}
            THEN [pool |-> [pool EXCEPT !.accounts =
                                _dict_to_account_shared(pool.accounts, now_ms)],
                  idx |-> None, saved |-> FALSE]
            ELSE moved(accounts, (current + SetMin(offsets)) % Len(accounts))
        loaded(accounts) ==
            scanned(accounts, RotateOffsets(accounts, current, now_ms, model))
    IN  loaded(_clear_expired_limits(pool.accounts, now_ms))

\* variant: the new entry is appended without dropping the old one
add_account_appends(pool, email, credentials) ==
    [pool |-> [pool EXCEPT !.accounts = Append(@, AccountEntry(email, credentials))],
     saved |-> TRUE]

\* add_account: replaces the account with the same email, appends, saves
add_account(pool, email, credentials) ==
    [pool |-> [pool EXCEPT
                  !.accounts = Append(SelectSeq(@, LAMBDA a : a.email # email),
                                      AccountEntry(email, credentials))],
     saved |-> TRUE]

\* remove_account: saves only when an account was dropped
remove_account(pool, email) ==
    LET accounts == SelectSeq(pool.accounts, LAMBDA a : a.email # email)
    IN  [pool |-> [pool EXCEPT !.accounts = accounts],
         saved |-> Len(accounts) # Len(pool.accounts)]

\* update_credentials: the first account with the email, then always saves
update_credentials(pool, email, credentials) ==
    LET k == FirstWithEmail(pool.accounts, email)
    IN  [pool |-> IF k = 0 THEN pool
                  ELSE [pool EXCEPT !.accounts[k].credentials = credentials],
         saved |-> TRUE]

----------------------------------------------------------------------------
(* The pricing catalog: esprit/llm/pricing.py                              *)
(*                                                                         *)
(* A model name "p/b" is the record Name(p, b) and a bare name "b" is      *)
(* Name("", b), so that split("/", 1) is a projection.  Rates are integers *)
(* in units of 1e-7 USD per token.                                         *)

Name(p, b) == [prefix |-> p, bare |-> b]

\* model.split("/", 1)[-1] if "/" in model else model
Bare(model) == model.bare

_TIERED_THRESHOLD == 200000

_PROVIDER_PREFIXES == <<"anthropic/", "openai/", "gemini/", "azure/", "claude-">>

\* f"{prefix}{bare}" as a name: a prefix ending in "/" is a provider prefix,
\* "claude-" makes a longer bare name
Prefixed(prefix, bare) ==
    CASE prefix = "anthropic/" -> Name("anthropic", bare)
      [] prefix = "openai/" -> Name("openai", bare)
      [] prefix = "gemini/" -> Name("gemini", bare)
      [] prefix = "azure/" -> Name("azure", bare)
      [] OTHER -> Name("", prefix \o bare)

_MODEL_ALIASES ==
    [b \in {"claude-opus-4-6-thinking", "claude-opus-4-5-thinking",
            "claude-sonnet-4-5-thinking", "gemini-2.5-flash-thinking",
            "gemini-2.5-flash-lite", "gemini-3-flash", "gemini-3-pro-high",
            "gemini-3-pro-low", "gemini-3-pro-image"} |->
        CASE b = "claude-opus-4-6-thinking" -> "claude-opus-4-6"
          [] b = "claude-opus-4-5-thinking" -> "claude-opus-4-5"
          [] b = "claude-sonnet-4-5-thinking" -> "claude-sonnet-4-5"
          [] b = "gemini-2.5-flash-thinking" -> "gemini-2.5-flash"
          [] b = "gemini-2.5-flash-lite" -> "gemini-2.5-flash"
          [] b = "gemini-3-flash" -> "gemini-3-flash-preview"
          [] b = "gemini-3-pro-high" -> "gemini-3-pro-preview"
          [] b = "gemini-3-pro-low" -> "gemini-3-pro-preview"
          [] b = "gemini-3-pro-image" -> "gemini-3-pro-image-preview"]

\* ModelPricing(data): the rates the cost reads
ModelPricing(input_cost, output_cost, cache_read_cost, input_cost_above, output_cost_above, cache_read_cost_above) ==
    [input_cost |-> input_cost, output_cost |-> output_cost,
     cache_read_cost |-> cache_read_cost, input_cost_above |-> input_cost_above,
     output_cost_above |-> output_cost_above,
     cache_read_cost_above |-> cache_read_cost_above]

NoPricing == [input_cost |-> None]

\* PricingDB._data: one loaded catalog.  claude-opus-4-6 and
\* gemini/gemini-3-pro-preview are tiered, gpt-5 is flat, and
\* claude-sonnet-4-5 tiers its input and output but not its cache reads.
PricingData ==
    [k \in {Name("", "claude-opus-4-6"), Name("", "gpt-5"),
            Name("gemini", "gemini-3-pro-preview"), Name("", "claude-sonnet-4-5")} |->
        CASE k = Name("", "claude-opus-4-6") -> ModelPricing(50, 250, 5, 100, 375, 10)
          [] k = Name("", "gpt-5") -> ModelPricing(12, 100, 1, 0, 0, 0)
          [] k = Name("gemini", "gemini-3-pro-preview") -> ModelPricing(20, 120, 2, 40, 180, 4)
          [] k = Name("", "claude-sonnet-4-5") -> ModelPricing(30, 150, 3, 60, 225, 0)]

\* s.startswith(t) with the rest empty or starting with "-", ".", ":" or a
\* digit, for the names of the model ("claude-sonnet-4-5-20250514" is the
\* example of _resolve_model's comment)
StartsOnBoundary(s, t) ==
    \/ s = t
    \/ <<s, t>> \in {<<"claude-sonnet-4-5-20250514", "claude-sonnet-4-5">>,
                     <<"claude-sonnet-4-5-thinking", "claude-sonnet-4-5">>,
                     <<"claude-opus-4-6-thinking", "claude-opus-4-6">>,
                     <<"gemini-3-pro-image-preview", "gemini-3-pro-image">>,
                     <<"gemini-3-flash-preview", "gemini-3-flash">>}

\* the fuzzy step of _resolve_model: the key with the longest match; the
\* names of PricingData that match the same model have different lengths,
\* so the longest match is the key that no other matching key extends
FuzzyMatch(data, bare) ==
    LET hits == {k \in DOMAIN data :
                    StartsOnBoundary(bare, k.bare) \/ StartsOnBoundary(k.bare, bare)}
    IN  IF hits = {} THEN NoPricing
        ELSE data[CHOOSE k \in hits :
                    \A j \in hits : j = k \/ ~StartsOnBoundary(j.bare, k.bare)]

\* the lookups of _resolve_model before the alias: the name, the bare name,
\* then each provider prefix
DirectMatch(data, model) ==
    LET bare == Bare(model)
        prefixed == {i \in DOMAIN _PROVIDER_PREFIXES :
                        Prefixed(_PROVIDER_PREFIXES[i], bare) \in DOMAIN data}
    IN  IF model \in DOMAIN data THEN data[model]
        ELSE IF Name("", bare) \in DOMAIN data THEN data[Name("", bare)]
        ELSE IF prefixed # {}
             THEN data[Prefixed(_PROVIDER_PREFIXES[SetMin(prefixed)], bare)]
        ELSE NoPricing

RECURSIVE _resolve_model(_, _, _)
_resolve_model(data, model, _seen) ==
    LET bare == Bare(model)
        direct == DirectMatch(data, model)
    IN  IF direct # NoPricing THEN direct
        ELSE IF bare \in DOMAIN _MODEL_ALIASES /\ _MODEL_ALIASES[bare] \notin _seen
             THEN _resolve_model(data, Name("", _MODEL_ALIASES[bare]),
                                 _seen \cup {_MODEL_ALIASES[bare]})
        ELSE FuzzyMatch(data, bare)

get_pricing(model) == _resolve_model(PricingData, model, {})

_tiered_cost(tokens, base_rate, above_rate) ==
    IF tokens <= 0 THEN 0
    ELSE IF tokens > _TIERED_THRESHOLD /\ above_rate > 0
         THEN Min(tokens, _TIERED_THRESHOLD) * base_rate
              + (tokens - _TIERED_THRESHOLD) * above_rate
    ELSE tokens * base_rate

\* a variant that charges the cached tokens at the input rate as well
calculate_cost_cached_twice(pricing, input_tokens, output_tokens, cached_tokens) ==
    LET input_cost == _tiered_cost(input_tokens, pricing.input_cost,
                                   pricing.input_cost_above)
        output_cost == _tiered_cost(output_tokens, pricing.output_cost,
                                    pricing.output_cost_above)
        cache_read == _tiered_cost(cached_tokens, pricing.cache_read_cost,
                                   pricing.cache_read_cost_above)
    IN  input_cost + output_cost + cache_read

calculate_cost(pricing, input_tokens, output_tokens, cached_tokens) ==
    LET regular_input == Max(0, input_tokens - cached_tokens)
        input_cost == _tiered_cost(regular_input, pricing.input_cost,
                                   pricing.input_cost_above)
        output_cost == _tiered_cost(output_tokens, pricing.output_cost,
                                    pricing.output_cost_above)
        cache_read == _tiered_cost(cached_tokens, pricing.cache_read_cost,
                                   pricing.cache_read_cost_above)
    IN  input_cost + output_cost + cache_read

get_cost(model, input_tokens, output_tokens, cached_tokens) ==
    LET pricing == get_pricing(model)
    IN  IF pricing = NoPricing THEN 0
        ELSE calculate_cost(pricing, input_tokens, output_tokens, cached_tokens)

----------------------------------------------------------------------------
(* The dispatch core: esprit/llm/llm.py and the Cloud Code constants of    *)
(* esprit/providers/antigravity.py                                         *)
(*                                                                         *)
(* Response text is a sequence over three symbols: "x" is ordinary text,   *)
(* "F" an opening <function=...> tag and "E" the literal </function>.      *)
(* An exception is the status code it carries, None when it carries none.  *)

ENDPOINTS == <<"daily-cloudcode-pa.sandbox", "autopush-cloudcode-pa.sandbox",
               "cloudcode-pa">>

\* "sandbox" in endpoint
IsSandbox(endpoint) ==
    endpoint \in {"daily-cloudcode-pa.sandbox", "autopush-cloudcode-pa.sandbox"}

ANTIGRAVITY_MODELS ==
    {"claude-opus-4-6-thinking", "claude-opus-4-5-thinking",
     "claude-sonnet-4-5-thinking", "claude-sonnet-4-5", "gemini-2.5-flash",
     "gemini-2.5-flash-lite", "gemini-2.5-flash-thinking", "gemini-2.5-pro",
     "gemini-3-flash", "gemini-3-pro-high", "gemini-3-pro-image", "gemini-3-pro-low"}

ANTIGRAVITY_FALLBACK_CHAIN ==
    <<"claude-opus-4-6-thinking", "claude-opus-4-5-thinking",
      "claude-sonnet-4-5-thinking", "claude-sonnet-4-5", "gemini-3-pro-high",
      "gemini-3-pro-low", "gemini-2.5-pro", "gemini-3-flash", "gemini-2.5-flash",
      "gemini-2.5-flash-thinking", "gemini-2.5-flash-lite">>

\* "claude" in model
IsClaude(bare) ==
    bare \in {"claude-opus-4-6-thinking", "claude-opus-4-5-thinking",
              "claude-sonnet-4-5-thinking", "claude-sonnet-4-5"}

\* ANTIGRAVITY_FALLBACK_CHAIN.index(bare), 1-based, 0 for ValueError
ChainIndex(bare) ==
    IF \E i \in DOMAIN ANTIGRAVITY_FALLBACK_CHAIN : ANTIGRAVITY_FALLBACK_CHAIN[i] = bare
    THEN CHOOSE i \in DOMAIN ANTIGRAVITY_FALLBACK_CHAIN : ANTIGRAVITY_FALLBACK_CHAIN[i] = bare
    ELSE 0

get_fallback_models(current_model) ==
    LET idx == ChainIndex(Bare(current_model))
        n == Len(ANTIGRAVITY_FALLBACK_CHAIN)
    IN  IF idx # 0 THEN SubSeq(ANTIGRAVITY_FALLBACK_CHAIN, idx + 1, n)
        ELSE SubSeq(ANTIGRAVITY_FALLBACK_CHAIN, ChainIndex("gemini-3-flash"), n)

\* has_accounts: any(a.enabled for a in accounts)
has_accounts(p) == \E k \in DOMAIN p.accounts : p.accounts[k].enabled

_NON_AG_PREFIXES ==
    {"anthropic", "google", "openai", "bedrock", "github-copilot", "gemini",
     "azure", "vertex_ai"}

\* _is_antigravity; p is the antigravity pool, whose enabled accounts make
\* should_use_oauth("antigravity/<bare>") true
_is_antigravity(model_name, p) ==
    IF model_name.prefix = "antigravity" THEN TRUE
    ELSE IF model_name.prefix \in _NON_AG_PREFIXES THEN FALSE
    ELSE Bare(model_name) \in ANTIGRAVITY_MODELS /\ has_accounts(p)

\* litellm._should_retry(status_code) behind LLM._should_retry
_should_retry(code) ==
    code = None \/ code \in {408, 409, 429} \/ code >= 500

\* a variant without the cap of ten seconds
RetryWait_uncapped(attempt) == 2 * (2 ^ attempt)

\* min(10, 2 * (2**attempt))
RetryWait(attempt) == Min(10, 2 * (2 ^ attempt))

\* retry_after of _try_rotate_on_rate_limit when the response has no
\* retry-after header
DefaultRetryAfter == 60

\* a variant that rotates without marking the account that met the 429
_try_rotate_on_rate_limit_no_mark(p, file, now_ms, model_name, code) ==
    IF code # 429
    THEN [rotated |-> FALSE, pool |-> p, file |-> file, marked |-> NoEmail]
    ELSE
    LET rotated == rotate(p, now_ms, Bare(model_name))
    IN  [rotated |-> rotated.idx # None,
         pool |-> rotated.pool,
         file |-> IF rotated.saved THEN rotated.pool ELSE file,
         marked |-> NoEmail]

\* _try_rotate_on_rate_limit for a provider with pool p:
\* [rotated, pool, file: the pool as saved, marked: the email marked]
_try_rotate_on_rate_limit(p, file, now_ms, model_name, code) ==
    IF code # 429
    THEN [rotated |-> FALSE, pool |-> p, file |-> file, marked |-> NoEmail]
    ELSE
    LET bare_model == Bare(model_name)
        after_rotate(email, marked, rotated) ==
            [rotated |-> rotated.idx # None,
             pool |-> rotated.pool,
             file |-> IF rotated.saved THEN rotated.pool ELSE marked.pool,
             marked |-> email]
        after_mark(email, marked) ==
            after_rotate(email, marked, rotate(marked.pool, now_ms, bare_model))
        with_email(current, email) ==
            after_mark(email, mark_rate_limited(current.pool, now_ms, email, bare_model,
                                                DefaultRetryAfter))
        after_peek(current) ==
            IF current.idx = None
            THEN [rotated |-> FALSE, pool |-> current.pool, file |-> file,
                  marked |-> NoEmail]
            ELSE with_email(current, At(current.pool.accounts, current.idx).email)
    IN  after_peek(peek_best_account(p, now_ms, NoModel))

\* a variant that takes the last entry not in tried
FirstUntried_last(fallbacks, tried) ==
    IF \E i \in DOMAIN fallbacks : fallbacks[i] \notin tried
    THEN CHOOSE i \in DOMAIN fallbacks :
            /\ fallbacks[i] \notin tried
            /\ \A j \in DOMAIN fallbacks : fallbacks[j] \notin tried => j <= i
    ELSE 0

\* the first entry of fallbacks not in tried, 0 when there is none
FirstUntried(fallbacks, tried) ==
    IF \E i \in DOMAIN fallbacks : fallbacks[i] \notin tried
    THEN SetMin({i \in DOMAIN fallbacks : fallbacks[i] \notin tried})
    ELSE 0

\* _try_model_fallback: [switched, model_name, tried_models]
_try_model_fallback(model_name, tried_models, auto_fallback) ==
    LET tried == tried_models \cup {Bare(model_name)}
        switch(fallbacks, i) ==
            IF i = 0
            THEN [switched |-> FALSE, model_name |-> model_name, tried_models |-> tried]
            ELSE [switched |-> TRUE,
                  model_name |-> Name(IF model_name.prefix # "" THEN model_name.prefix
                                      ELSE "antigravity", fallbacks[i]),
                  tried_models |-> tried \cup {fallbacks[i]}]
        try(fallbacks) ==
            IF ~auto_fallback \/ fallbacks = <<>>
            THEN [switched |-> FALSE, model_name |-> model_name,
                  tried_models |-> tried_models]
            ELSE switch(fallbacks, FirstUntried(fallbacks, tried))
    IN  try(get_fallback_models(model_name))

\* position of the first "E" in text, 0 when there is none
FindMarker(text) ==
    IF \E i \in DOMAIN text : text[i] = "E"
    THEN SetMin({i \in DOMAIN text : text[i] = "E"})
    ELSE 0

\* accumulated += delta, cut after the first </function> when there is one:
\* accumulated[: accumulated.find("</function>") + len("</function>")]
Accumulate(accumulated, delta) ==
    LET text == accumulated \o delta
    IN  IF FindMarker(text) # 0 THEN SubSeq(text, 1, FindMarker(text)) ELSE text

\* _truncate_to_first_function: the content up to the end of the first
\* <function=...>...</function> block, unchanged when there is none
_truncate_to_first_function(content) ==
    LET opens == {i \in DOMAIN content : content[i] = "F"}
        closes == IF opens = {} THEN {}
                  ELSE {i \in DOMAIN content : content[i] = "E" /\ i > SetMin(opens)}
    IN  IF closes = {} THEN content ELSE SubSeq(content, 1, SetMin(closes))

\* fix_incomplete_tool_call: an opened block that is not closed is closed
fix_incomplete_tool_call(content) ==
    LET opens == {i \in DOMAIN content : content[i] = "F"}
    IN  IF opens # {} /\ ~(\E i \in DOMAIN content : content[i] = "E" /\ i > SetMin(opens))
        THEN Append(content, "E")
        ELSE content

\* a is a prefix of b
IsPrefix(a, b) == Len(a) <= Len(b) /\ SubSeq(b, 1, Len(a)) = a

\* RequestStats with the usage of one request added; the cost is get_cost
\* of the model name at that moment
AddUsage(stats, model_name, usage) ==
    [stats EXCEPT
        !.input_tokens = @ + usage.input_tokens,
        !.output_tokens = @ + usage.output_tokens,
        !.cached_tokens = @ + usage.cached_tokens,
        !.cost = @ + get_cost(model_name, usage.input_tokens, usage.output_tokens,
                              usage.cached_tokens)]

----------------------------------------------------------------------------
(* State.                                                                  *)

VARIABLES
    pool,           \* AccountPool._pools[provider_id], the cached pool
    accounts_file,  \* the pool as last written to accounts.json
    now,            \* time.time() * 1000
    ticks,          \* how often the clock has advanced
    marks,          \* how many mark_rate_limited calls were made
    rotRun,         \* the current run of back-to-back rotate calls
    prevMark,       \* per email, the latest mark_rate_limited call
    cost_call,      \* the latest get_cost call: its arguments and result
    config,         \* LLM.config.model_name and the Config settings generate reads
    llm,            \* the LLM instance: _tried_models and _total_stats
    gen,            \* the generate call in progress: its locals and position
    obs,            \* what the caller of generate has seen of the current call
    call,           \* the latest call of the pool: its arguments and result
    save,           \* the _save in progress: its temporary file and position
    peer,           \* the cache of a second AccountPool on the same file
    sent,           \* the latest request sent to a provider: its credential
    tracer,         \* the Tracer of the run: the fields the fan-out reads
    bridge,         \* the TracerBridge: its clients and its trackers
    ws,             \* per websocket: its handler, its connection, what it received
    poll,           \* _poll_loop: its position and the broadcast in progress
    turn,           \* the usage update of the turn in progress
    seen,           \* what a reader on another thread saw of _total_stats
    usage_file,     \* ~/.esprit/usage.json
    adders,         \* the threads inside add_session_cost and _usage_lock
    attempt_b,      \* one run of _stream_antigravity's endpoint loop
    prep,           \* per LLM instance, where it is in _prepare_messages
    sanitized       \* the latest tool schema and what _sanitize_schema made of it

poolVars == <<pool, accounts_file, now, ticks, marks, rotRun, prevMark>>
costVars == <<cost_call>>
acctVars == <<call, save, peer, sent>>
genVars == <<config, llm, gen, obs>>
guiVars == <<tracer, bridge, ws, poll>>
statVars == <<turn, seen>>
usageVars == <<usage_file, adders>>
endVars == <<attempt_b>>
lateVars == <<prep, sanitized>>
sideVars == <<guiVars, statVars, usageVars, endVars, lateVars>>
vars == <<poolVars, costVars, acctVars, genVars, sideVars>>

----------------------------------------------------------------------------
(* The telemetry fan-out, the stats accumulator and the usage file: the     *)
(* values they start from.                                                  *)

\* TracerBridge.POLL_INTERVAL, in milliseconds
POLL_INTERVAL == 500

AgentIds == {"agent-1", "agent-2"}
Clients == {"ws1", "ws2"}

\* a dict with no key
EmptyMap == [k \in {} |-> None]

\* d[k] = v
Put(d, k, v) == [x \in DOMAIN d \cup {k} |-> IF x = k THEN v ELSE d[x]]

\* d.get(k)
Get(d, k) == IF k \in DOMAIN d THEN d[k] ELSE None

\* the tracer of a run that has just started: the fields the fan-out reads
NewTracer ==
    [agents |-> EmptyMap,                      \* agent_id -> status
     tool_executions |-> <<>>,                 \* execution ids 1, 2, ...
     chat_messages |-> <<>>,
     vulnerability_reports |-> <<>>,
     streaming_content |-> EmptyMap,           \* agent_id -> text
     latest_browser_screenshots |-> EmptyMap,  \* agent_id -> execution id
     scan_config |-> None,
     final_scan_result |-> None,
     start_time |-> StartTime,
     end_time |-> None,
     status |-> "running",                     \* run_metadata["status"]
     output_tokens |-> 0,                      \* get_total_llm_stats()["total"]
     compacting_agents |-> {},                 \* agent ids
     writes |-> 0]                             \* how often the run has written

\* _last_stats_hash = "": the hash of no stats
NoHash == [json |-> [empty |-> TRUE]]

\* what a client holds before its first frame
NoView == [type |-> "none"]

\* TracerBridge.__init__: no client, and the trackers of the last poll
NewBridge ==
    [clients |-> <<>>,
     last_agent_count |-> 0,
     last_agent_statuses |-> EmptyMap,
     last_tool_count |-> 0,
     last_chat_count |-> 0,
     last_vuln_count |-> 0,
     last_streaming |-> EmptyMap,
     last_screenshot_ids |-> EmptyMap,
     last_stats_hash |-> NoHash,
     last_scan_config |-> None,
     sent_final_report |-> FALSE]

\* a websocket nobody has connected yet: the position of its handler, the
\* state of its connection, the types of the first and of the latest frame it
\* was sent, and the state the client has rebuilt from them
NewSocket == [pc |-> "new", link |-> "up", first |-> "none", last |-> "none", view |-> NoView]

\* _poll_loop asleep, before its first poll: the deltas of the _detect_deltas
\* being broadcast, and of that _broadcast the clients it started with
\* (targets), those still to be sent to (queue), the list dead, the clients
\* the frame reached and those whose send raised; fresh tells that
\* _detect_deltas has run and the run has not written since
NewPoll ==
    [pc |-> "sleep", polls |-> 0, fresh |-> FALSE, deltas |-> <<>>,
     queue |-> <<>>, dead |-> <<>>, targets |-> {}, delivered |-> {}, raised |-> {}]

\* no usage update of a turn in progress, nothing read by the other thread
NoTurn == [pc |-> "idle", done |-> 0, turns |-> 0]
NoSeen ==
    [stats |-> [input_tokens |-> 0, output_tokens |-> 0, cached_tokens |-> 0, cost |-> 0],
     none |-> [input_tokens |-> 0, output_tokens |-> 0, cached_tokens |-> 0, cost |-> 0],
     all |-> [input_tokens |-> 0, output_tokens |-> 0, cached_tokens |-> 0, cost |-> 0],
     during |-> FALSE]

\* no error raised
NoError == [kind |-> "none", code |-> None, endpoint |-> 0]

\* _stream_antigravity before its endpoint loop: the model, the endpoint
\* being requested, the retries made after a 400, last_error, and of this
\* run the endpoints requested, the sleeps in seconds, the answers and
\* the error raised
NoAttemptB ==
    [pc |-> "idle", model |-> "", endpoint |-> 0, retry |-> 0, last_error |-> NoError,
     requests |-> <<>>, sleeps |-> <<>>, answers |-> <<>>, error |-> NoError,
     runs |-> 0]

\* ~/.esprit/usage.json absent, and no thread inside add_session_cost
NoUsageFile == [exists |-> FALSE, lifetime_cost |-> 0]
NoAdders == [lock |-> "", threads |-> EmptyMap, sum |-> 0, initial |-> 0,
             exact |-> TRUE, failed |-> FALSE]

----------------------------------------------------------------------------
(* The pool's calls as steps.                                              *)

\* _get_pool: the pool of a provider that has none yet
DefaultPool == [accounts |-> <<>>, active_index |-> 0, strategy |-> "sticky"]

\* no call of the pool recorded
NoCall ==
    [op |-> "none", model |-> NoModel, email |-> NoEmail, credentials |-> None,
     at |-> None, before |-> DefaultPool, file |-> DefaultPool, idx |-> None,
     returned |-> <<>>]

\* no _save in progress: no temporary file; data is the content the latest
\* _save dumps, prev the content of accounts.json when that _save began, and
\* target tells whether the bytes of accounts.json are a complete document
NoSave ==
    [pc |-> "idle", tmp |-> "none", data |-> DefaultPool, prev |-> DefaultPool,
     target |-> "complete"]

\* a second AccountPool that has not read the file yet (_pools is None)
NoPeer == [loaded |-> FALSE, pools |-> DefaultPool]

\* no credentials: get_credentials returned None
NoCredentials ==
    [type |-> "none", access_token |-> None, refresh_token |-> None,
     expires_at |-> None, email |-> NoEmail]

\* an attempt in the given mode at the time at_ms: the credentials selected
\* for it, the access token the request carries (None when no request is
\* sent), whether a refresh was tried, and the error raised instead
Request(mode, selected, access_token, refresh, error, at_ms) ==
    [mode |-> mode, selected |-> selected, access_token |-> access_token,
     refresh |-> refresh, error |-> error, at |-> at_ms]

\* no request sent yet
NoRequest == Request("none", NoCredentials, None, "none", "none", None)

NoRun == [model |-> NoModel, before |-> <<>>, returned |-> <<>>, viable |-> {}]
NoMark == [at |-> None, cooldown |-> None]

\* An account as a process finds it in accounts.json after an earlier run
\* marked it rate-limited k times in a row, the last time `ago` ms before
\* this process started, with Retry-After reset_seconds.
Limited(email, k, reset_seconds, ago) ==
    [AccountEntry(email, 1) EXCEPT
        !.rate_limits = [m \in Models |-> StartTime - ago + reset_seconds * 1000],
        !.consecutive_429s = k,
        !.last_429_at = StartTime - ago,
        !.cooling_until = StartTime - ago + Cooldown(k) * 1000]

\* the accounts a process can load for one email: new, disabled in the
\* file, or rate-limited by an earlier run
Loadable(email, ks) ==
    {AccountEntry(email, 1), [AccountEntry(email, 1) EXCEPT !.enabled = FALSE]}
    \cup {Limited(email, k, r, PriorAgo) : k \in ks, r \in ResetSeconds}

\* the pools a process can load: accounts in a fixed order, the account at
\* position k out of choice[k], either strategy
LoadablePools(sizes, choice) ==
    UNION {
        {[accounts |-> accts, active_index |-> 0, strategy |-> st] :
            accts \in {a \in [1 .. n -> UNION {choice[k] : k \in 1 .. n}] :
                        \A k \in 1 .. n : a[k] \in choice[k]},
            st \in Strategies} :
        n \in sizes}

\* _save_accounts after a call: accounts.json follows the cached pool
Saved(r) == IF r.saved THEN r.pool ELSE accounts_file

PeekBestAccount(model) ==
    LET r == peek_best_account(pool, now, model) IN
    /\ pool' = r.pool
    /\ accounts_file' = Saved(r)
    /\ rotRun' = NoRun
    /\ UNCHANGED <<sideVars, now, ticks, marks, prevMark, costVars, acctVars, genVars>>

GetBestAccount(model) ==
    LET r == get_best_account(pool, now, model) IN
    /\ pool' = r.pool
    /\ accounts_file' = Saved(r)
    /\ rotRun' = NoRun
    /\ UNCHANGED <<sideVars, now, ticks, marks, prevMark, costVars, acctVars, genVars>>

MarkRateLimited(email, model, reset_seconds) ==
    LET r == mark_rate_limited(pool, now, email, model, reset_seconds)
        k == FirstWithEmail(pool.accounts, email)
    IN
    /\ marks < MaxMarks
    /\ marks' = marks + 1
    /\ pool' = r.pool
    /\ accounts_file' = Saved(r)
    /\ rotRun' = NoRun
    /\ prevMark' =
        IF k = 0 THEN prevMark
        ELSE [prevMark EXCEPT ![email] =
                [at |-> now, cooldown |-> r.pool.accounts[k].cooling_until - now]]
    /\ UNCHANGED <<sideVars, now, ticks, costVars, acctVars, genVars>>

\* the accounts rotate may move to: enabled, not cooling, not rate-limited
\* for the model
Viable(accounts, now_ms, model) ==
    {i \in Indices(accounts) :
        /\ At(accounts, i).enabled
        /\ ~(Truthy(At(accounts, i).cooling_until) /\ At(accounts, i).cooling_until > now_ms)
        /\ ~(model # NoModel /\ model \in DOMAIN At(accounts, i).rate_limits
             /\ At(accounts, i).rate_limits[model] > now_ms)}

Rotate(model) ==
    LET r == rotate(pool, now, model) IN
    /\ pool' = r.pool
    /\ accounts_file' = Saved(r)
    /\ rotRun' = NoRun
    /\ UNCHANGED <<sideVars, now, ticks, marks, prevMark, costVars, acctVars, genVars>>

\* rotate called again right after rotate, the run of results recorded
RotateRun(model) ==
    LET r == rotate(pool, now, model)
        continues == rotRun.returned # <<>> /\ rotRun.model = model
    IN
    /\ Len(rotRun.returned) < MaxRun
    /\ pool' = r.pool
    /\ accounts_file' = Saved(r)
    /\ rotRun' = [model |-> model,
                  before |-> IF continues THEN Append(rotRun.before, pool.active_index)
                             ELSE <<pool.active_index>>,
                  returned |-> IF continues THEN Append(rotRun.returned, r.idx)
                               ELSE <<r.idx>>,
                  viable |-> Viable(pool.accounts, now, model)]
    /\ UNCHANGED <<sideVars, now, ticks, marks, prevMark, costVars, acctVars, genVars>>

Tick(d) ==
    /\ ticks < MaxTicks
    /\ now' = now + d
    /\ ticks' = ticks + 1
    /\ rotRun' = NoRun
    /\ call' = NoCall
    /\ UNCHANGED <<sideVars, pool, accounts_file, marks, prevMark, costVars, save, peer, sent,
                   genVars>>

NoUsage == [input_tokens |-> None, output_tokens |-> None, cached_tokens |-> None]

\* RequestStats()
NoStats == [input_tokens |-> 0, output_tokens |-> 0, cached_tokens |-> 0,
            cost |-> 0, requests |-> 0]

\* no generate call in progress
IdleGen ==
    [pc |-> "idle", attempt |-> 0, email |-> NoEmail, endpoint |-> 0, retry |-> 0,
     last_error |-> None, accumulated |-> <<>>, done_streaming |-> 0,
     usage |-> NoUsage, chunks |-> FALSE, late |-> <<>>]

NoYield == [some |-> FALSE, content |-> <<>>, terminal |-> FALSE]

No429 ==
    [seen |-> FALSE, used |-> NoEmail, marked |-> NoEmail, other |-> FALSE,
     attempt_before |-> 0, attempt_after |-> 0,
     next_started |-> FALSE, next_used |-> NoEmail]

\* what the caller has seen when a call starts: nothing
NewCallObs(calls, stats) ==
    [calls |-> calls,       \* generate calls started on the instance
     stats |-> stats,       \* _total_stats when the call started
     plain |-> TRUE,        \* no rotation and no fallback in this call so far
     sleeps |-> <<>>,       \* the waits of generate's retries while plain
     retryable |-> TRUE,    \* every failed attempt had a retryable error
     last |-> NoYield,      \* the latest value yielded
     terminals |-> 0,       \* terminal snapshots yielded
     last429 |-> No429,     \* the latest attempt that failed with 429
     rotations |-> 0,       \* retries after a rotation, which are not counted
     counted |-> 0,         \* failed attempts counted against the current model
     most |-> 0,            \* the most attempts counted against one model
     left |-> <<>>]         \* the models the call has fallen back from

IdleDispatch ==
    /\ config = [model_name |-> Name("openai", "gpt-5"), max_retries |-> 5,
                 auto_fallback |-> TRUE]
    /\ llm = [tried_models |-> {}, stats |-> NoStats]
    /\ gen = IdleGen
    /\ obs = NewCallObs(0, NoStats)

NoCost == [model |-> Name("", ""), input |-> 0, output |-> 0, cached |-> 0, cost |-> None]

\* a new tracer, no usage file and no thread in add_session_cost
InitQuiet ==
    /\ tracer = NewTracer
    /\ usage_file = NoUsageFile
    /\ adders = NoAdders

\* the LLM instances of the run and their agent ids; "" is no agent id
Instances == {"llm-1", "llm-2", "llm-3"}
agent_id(i) == IF i = "llm-1" THEN "agent-1" ELSE IF i = "llm-2" THEN "agent-2" ELSE ""

\* no instance is preparing a request
NoPrep == [i \in Instances |-> [pc |-> "idle", calls |-> 0]]

\* None where a schema is expected
NoSchema == [none |-> TRUE]
NoSanitized == [schema |-> NoSchema, result |-> NoSchema]

InitVarsPool ==
    /\ prep = NoPrep
    /\ sanitized = NoSanitized
    /\ accounts_file = pool
    /\ now = StartTime
    /\ ticks = 0
    /\ marks = 0
    /\ rotRun = NoRun
    /\ prevMark = [e \in Emails |->
                    IF \E k \in DOMAIN pool.accounts :
                            pool.accounts[k].email = e /\ pool.accounts[k].last_429_at # None
                    THEN LET acct == pool.accounts[FirstWithEmail(pool.accounts, e)]
                         IN  [at |-> acct.last_429_at,
                              cooldown |-> acct.cooling_until - acct.last_429_at]
                    ELSE NoMark]
    /\ cost_call = NoCost
    /\ call = NoCall
    /\ save = NoSave
    /\ peer = NoPeer
    /\ sent = NoRequest
    /\ attempt_b = NoAttemptB
    /\ bridge = NewBridge
    /\ ws = [c \in Clients |-> NewSocket]
    /\ poll = NewPoll
    /\ turn = NoTurn
    /\ seen = NoSeen

\* Escalating cooldowns: one account in any loadable state, and possibly a
\* second, new one
InitBackoff ==
    /\ pool \in LoadablePools(1 .. 2,
                    <<Loadable("a@x", 1 .. MaxPrior), {AccountEntry("b@y", 2)}>>)
    /\ InitVarsPool
    /\ InitQuiet
    /\ IdleDispatch

NextBackoff ==
    \/ \E model \in Models \cup {NoModel} : PeekBestAccount(model)
    \/ \E model \in Models \cup {NoModel} : GetBestAccount(model)
    \/ \E model \in Models, r \in ResetSeconds : MarkRateLimited("a@x", model, r)
    \/ \E model \in Models : MarkRateLimited("b@y", model, 30)
    \/ \E model \in Models \cup {NoModel} : Rotate(model)
    \/ \E d \in TickSteps : Tick(d)

SpecBackoff == InitBackoff /\ [][NextBackoff]_vars

\* Rotation: two or three accounts, each new, disabled or cooling after one
\* 429 of an earlier run
InitRotate ==
    /\ pool \in LoadablePools(2 .. 3,
                    [k \in 1 .. 3 |-> Loadable(EmailOrder[k], {1})])
    /\ InitVarsPool
    /\ InitQuiet
    /\ IdleDispatch

NextRotate ==
    \/ \E model \in Models \cup {NoModel} : RotateRun(model)
    \/ \E model \in Models \cup {NoModel} : GetBestAccount(model)
    \/ \E d \in TickSteps : Tick(d)

SpecRotate == InitRotate /\ [][NextRotate]_vars

\* Pricing: get_cost called on names that resolve directly, by provider
\* prefix, by alias and by longest prefix, and on an unknown name, with
\* token counts on both sides of the threshold
CostModels ==
    {Name("", "claude-opus-4-6"), Name("antigravity", "claude-opus-4-6-thinking"),
     Name("openai", "gpt-5"), Name("antigravity", "gemini-3-pro-high"),
     Name("anthropic", "claude-sonnet-4-5-20250514"), Name("", "mystery-1")}

TokenCounts ==
    {0, 1000, _TIERED_THRESHOLD, _TIERED_THRESHOLD + 1,
     _TIERED_THRESHOLD + MaxOver * 1000}

GetCost(model, input_tokens, output_tokens, cached_tokens) ==
    /\ cost_call' = [model |-> model, input |-> input_tokens, output |-> output_tokens,
                     cached |-> cached_tokens,
                     cost |-> get_cost(model, input_tokens, output_tokens, cached_tokens)]
    /\ UNCHANGED <<sideVars, poolVars, acctVars, genVars>>

InitCost ==
    /\ pool = DefaultPool
    /\ InitVarsPool
    /\ InitQuiet
    /\ IdleDispatch

NextCost ==
    \E model \in CostModels, i \in TokenCounts, o \in TokenCounts, c \in TokenCounts :
        GetCost(model, i, o, c)

SpecCost == InitCost /\ [][NextCost]_vars

----------------------------------------------------------------------------
(* LLM.generate as steps.  One step is what runs between two awaits on the  *)
(* network: the start of an attempt, the outcome of a request, one chunk of *)
(* a stream, the end of a stream.  The except clause of generate runs in    *)
(* the step in which the exception is raised.                               *)

\* the value yielded to the caller
Yielded(o, content, terminal) ==
    [o EXCEPT
        !.last = [some |-> TRUE, content |-> content, terminal |-> terminal],
        !.terminals = IF terminal THEN @ + 1 ELSE @]

\* prevMark after _try_rotate_on_rate_limit marked an account
MarkedAt(p, email) ==
    IF email = NoEmail THEN prevMark
    ELSE [prevMark EXCEPT ![email] =
            [at |-> now,
             cooldown |-> p.accounts[FirstWithEmail(p.accounts, email)].cooling_until - now]]

\* another account than `used` that is enabled, not cooling and not
\* rate-limited for the model
OtherViable(p, now_ms, model, used) ==
    \E i \in Viable(p.accounts, now_ms, model) : At(p.accounts, i).email # used

\* an exception without a status code, or with one of the statuses that
\* are retried: 408, 409, 429 and the 5xx
RetryableError(code) == code = None \/ code \in {408, 409, 429} \/ code \in 500 .. 599

\* the except clause of generate for an exception with this status code,
\* raised when the pool is p, accounts.json is file and the stats are stats
Except(p, file, stats, code) ==
    LET exhausted == gen.attempt >= config.max_retries \/ ~_should_retry(code)
        handled(rot, fb, kind, wait, attempt, plain) ==
            /\ pool' = rot.pool
            /\ accounts_file' = rot.file
            /\ now' = now + wait * 1000
            /\ prevMark' = MarkedAt(rot.pool, rot.marked)
            /\ rotRun' = NoRun
            /\ config' = [config EXCEPT !.model_name = fb.model_name]
            /\ llm' = [tried_models |-> fb.tried_models, stats |-> stats]
            /\ gen' = [IdleGen EXCEPT
                        !.pc = IF kind = "raised" THEN "raised" ELSE "loop",
                        !.attempt = attempt]
            /\ obs' = [obs EXCEPT
                        !.plain = plain,
                        !.sleeps = IF ~plain THEN <<>>
                                   ELSE IF kind = "retry" THEN Append(@, wait) ELSE @,
                        !.retryable = @ /\ RetryableError(code),
                        !.rotations = IF kind = "rotated" THEN @ + 1 ELSE @,
                        !.counted = IF kind = "rotated" THEN @
                                    ELSE IF kind = "fallback" THEN 0 ELSE @ + 1,
                        !.most = IF kind = "rotated" THEN @ ELSE Max(@, obs.counted + 1),
                        !.left = IF kind = "fallback"
                                 THEN Append(@, Bare(config.model_name)) ELSE @,
                        !.last429 =
                            IF code # 429 THEN @
                            ELSE [seen |-> TRUE, used |-> gen.email,
                                  marked |-> rot.marked,
                                  other |-> OtherViable(p, now, Bare(config.model_name),
                                                        gen.email),
                                  attempt_before |-> gen.attempt,
                                  attempt_after |-> attempt,
                                  next_started |-> FALSE, next_used |-> NoEmail]]
            /\ UNCHANGED <<sideVars, ticks, marks, costVars, acctVars>>
        outcome(rot, fb, kind) ==
            handled(rot, fb, kind,
                    IF kind = "retry" THEN RetryWait(gen.attempt) ELSE 0,
                    CASE kind = "rotated" -> gen.attempt
                      [] kind = "fallback" -> 0
                      [] kind = "retry" -> gen.attempt + 1
                      [] OTHER -> gen.attempt,
                    obs.plain /\ kind \in {"retry", "raised"})
        decided(rot, fb) ==
            outcome(rot, fb,
                    IF rot.rotated THEN "rotated"
                    ELSE IF ~exhausted THEN "retry"
                    ELSE IF fb.switched THEN "fallback" ELSE "raised")
        rotation(rot) ==
            decided(rot,
                    IF ~rot.rotated /\ exhausted
                       /\ _is_antigravity(config.model_name, rot.pool)
                    THEN _try_model_fallback(config.model_name, llm.tried_models,
                                             config.auto_fallback)
                    ELSE [switched |-> FALSE, model_name |-> config.model_name,
                          tried_models |-> llm.tried_models])
    IN  rotation(_try_rotate_on_rate_limit(p, file, now, config.model_name, code))

\* generate(conversation_history) is called on the instance
GenerateCall(max_calls) ==
    /\ gen.pc \in {"idle", "returned", "raised", "closed"}
    /\ obs.calls < max_calls
    /\ gen' = [IdleGen EXCEPT !.pc = "loop"]
    /\ obs' = NewCallObs(obs.calls + 1, llm.stats)
    /\ UNCHANGED <<sideVars, poolVars, costVars, acctVars, config, llm>>

\* the endpoints _stream_antigravity tries for the model, after position i
EndpointsAfter(i, bare) ==
    {j \in DOMAIN ENDPOINTS : j > i /\ ~(IsClaude(bare) /\ ~IsSandbox(ENDPOINTS[j]))}

\* the caller's view when an attempt starts with the account email
AttemptStarted(o, email) ==
    [o EXCEPT
        !.last429 = IF @.seen /\ ~@.next_started
                    THEN [@ EXCEPT !.next_started = TRUE, !.next_used = email]
                    ELSE @]

\* Mode B, the head of _stream_antigravity: the request is counted, the
\* credentials come from get_best_account, and without an account the
\* attempt raises LLMRequestFailedError
BeginAttemptB ==
    LET stats == [llm.stats EXCEPT !.requests = @ + 1]
        begin(r) ==
            IF r.idx = None
            THEN Except(r.pool, Saved(r), stats, None)
            ELSE /\ pool' = r.pool
                 /\ accounts_file' = Saved(r)
                 /\ rotRun' = NoRun
                 /\ llm' = [llm EXCEPT !.stats = stats]
                 /\ gen' = [gen EXCEPT
                             !.pc = "request",
                             !.email = At(r.pool.accounts, r.idx).email,
                             !.endpoint =
                                SetMin(EndpointsAfter(0, Bare(config.model_name)))]
                 /\ obs' = AttemptStarted(obs, At(r.pool.accounts, r.idx).email)
                 /\ UNCHANGED <<sideVars, now, ticks, marks, prevMark, costVars, acctVars, config>>
    IN  /\ gen.pc = "loop"
        /\ _is_antigravity(config.model_name, pool)
        /\ begin(get_best_account(pool, now, NoModel))

\* Mode A, the head of _stream: the request is counted and
\* _build_completion_args asks for the provider headers and then for the
\* api key, each through get_credentials and get_best_account
BeginAttemptA ==
    LET begin(api_key, email) ==
            IF has_accounts(pool)
            THEN /\ pool' = api_key.pool
                 /\ accounts_file' = Saved(api_key)
                 /\ gen' = [gen EXCEPT !.pc = "request", !.email = email]
                 /\ obs' = AttemptStarted(obs, email)
            ELSE /\ UNCHANGED <<sideVars, pool, accounts_file>>
                 /\ gen' = [gen EXCEPT !.pc = "request"]
                 /\ obs' = AttemptStarted(obs, NoEmail)
        with_api_key(api_key) ==
            begin(api_key, IF api_key.idx = None THEN NoEmail
                           ELSE At(api_key.pool.accounts, api_key.idx).email)
        with_headers(headers) ==
            with_api_key(get_best_account(headers.pool, now, NoModel))
    IN  /\ gen.pc = "loop"
        /\ ~_is_antigravity(config.model_name, pool)
        /\ with_headers(get_best_account(pool, now, NoModel))
        /\ rotRun' = NoRun
        /\ llm' = [llm EXCEPT !.stats.requests = @ + 1]
        /\ UNCHANGED <<sideVars, now, ticks, marks, prevMark, costVars, acctVars, config>>

\* the response arrives with a success status: the stream is open
StreamOpens ==
    /\ gen.pc = "request"
    /\ gen' = [gen EXCEPT !.pc = "stream", !.accumulated = <<>>, !.done_streaming = 0,
                          !.usage = NoUsage, !.chunks = FALSE, !.late = <<>>]
    /\ UNCHANGED <<sideVars, poolVars, costVars, acctVars, config, llm, obs>>

\* Mode A: acompletion raises an exception with this status code
RequestFailsA(code) ==
    /\ gen.pc = "request"
    /\ gen.endpoint = 0
    /\ Except(pool, accounts_file, llm.stats, code)

\* Mode B: _stream_antigravity moves on to the next endpoint, and raises
\* after the last one
NextEndpoint(last_error) ==
    LET rest == EndpointsAfter(gen.endpoint, Bare(config.model_name)) IN
    IF rest = {}
    THEN Except(pool, accounts_file, llm.stats, last_error)
    ELSE /\ gen' = [gen EXCEPT !.endpoint = SetMin(rest), !.last_error = last_error]
         /\ UNCHANGED <<sideVars, poolVars, costVars, acctVars, config, llm, obs>>

\* Mode B: raise_for_status raises HTTPStatusError with this status code
StatusErrorB(code) ==
    /\ gen.pc = "request"
    /\ gen.endpoint # 0
    /\ IF code = 400 /\ gen.retry < 2
       THEN \* asyncio.sleep(2 * (retry + 1)), then the same endpoint again
            /\ now' = now + 2 * (gen.retry + 1) * 1000
            /\ gen' = [gen EXCEPT !.retry = @ + 1]
            /\ UNCHANGED <<sideVars, pool, accounts_file, ticks, marks, rotRun, prevMark,
                           costVars, acctVars, config, llm, obs>>
       ELSE IF code \in {429, 401, 403, 400} \/ gen.retry > 0
       THEN \* raise: a 429, an auth error, the 400 after the second retry, or any
            \* other status inside the handler of the 400
            Except(pool, accounts_file, llm.stats, code)
       ELSE NextEndpoint(code)

\* Mode B: httpx.ConnectError; it is caught for the first request to an
\* endpoint only, not inside the handler of a 400
ConnectErrorB ==
    /\ gen.pc = "request"
    /\ gen.endpoint # 0
    /\ IF gen.retry > 0 THEN Except(pool, accounts_file, llm.stats, None)
       ELSE NextEndpoint(gen.last_error)

\* a variant that adds the usage of a chunk to the stats as it arrives
Chunk_bills_usage(delta, usage, max_len) ==
    LET accumulated == Accumulate(gen.accumulated, delta)
        marker == FindMarker(accumulated) # 0
    IN  /\ gen.pc = "stream"
        /\ gen.done_streaming = 0
        /\ Len(gen.accumulated) + Len(delta) <= max_len
        /\ delta # <<>> \/ usage # NoUsage
        /\ gen' = [gen EXCEPT
                    !.chunks = TRUE,
                    !.usage = IF usage # NoUsage THEN usage ELSE @,
                    !.accumulated = IF delta # <<>> THEN accumulated ELSE @,
                    !.done_streaming = IF delta # <<>> /\ marker THEN 1 ELSE @]
        /\ obs' = IF delta # <<>> THEN Yielded(obs, accumulated, FALSE) ELSE obs
        /\ llm' = [llm EXCEPT !.stats =
                    IF usage # NoUsage THEN AddUsage(@, config.model_name, usage) ELSE @]
        /\ UNCHANGED <<sideVars, poolVars, costVars, acctVars, config>>

\* one chunk of the stream with this text and this usage
Chunk(delta, usage, max_len) ==
    LET accumulated == Accumulate(gen.accumulated, delta)
        marker == FindMarker(accumulated) # 0
    IN  /\ gen.pc = "stream"
        /\ gen.done_streaming = 0
        /\ Len(gen.accumulated) + Len(delta) <= max_len
        /\ delta # <<>> \/ usage # NoUsage
        /\ gen' = [gen EXCEPT
                    !.chunks = TRUE,
                    !.usage = IF usage # NoUsage THEN usage ELSE @,
                    !.accumulated = IF delta # <<>> THEN accumulated ELSE @,
                    !.done_streaming = IF delta # <<>> /\ marker THEN 1 ELSE @]
        /\ obs' = IF delta # <<>> THEN Yielded(obs, accumulated, FALSE) ELSE obs
        /\ UNCHANGED <<sideVars, poolVars, costVars, acctVars, config, llm>>

\* the read loop ends and the terminal snapshot is yielded
Terminal(usage) ==
    /\ llm' = [llm EXCEPT !.stats =
                IF usage # NoUsage THEN AddUsage(@, config.model_name, usage) ELSE @]
    /\ gen' = [gen EXCEPT !.pc = "terminal", !.usage = usage]
    /\ obs' = Yielded(obs,
                fix_incomplete_tool_call(_truncate_to_first_function(gen.accumulated)),
                TRUE)
    /\ UNCHANGED <<sideVars, poolVars, costVars, acctVars, config>>

\* a variant that breaks on done_streaming > 6
ChunkAfterMarkerA_six(delta, usage) ==
    LET read == [gen EXCEPT !.late = Append(@, [delta |-> delta, usage |-> usage])] IN
    /\ gen.pc = "stream"
    /\ gen.endpoint = 0
    /\ gen.done_streaming >= 1
    /\ IF usage # NoUsage \/ gen.done_streaming + 1 > 6
       THEN /\ llm' = [llm EXCEPT !.stats =
                        IF usage # NoUsage THEN AddUsage(@, config.model_name, usage)
                        ELSE IF gen.usage # NoUsage
                        THEN AddUsage(@, config.model_name, gen.usage) ELSE @]
            /\ gen' = [read EXCEPT !.pc = "terminal",
                                   !.usage = IF usage # NoUsage THEN usage ELSE @]
            /\ obs' = Yielded(obs,
                        fix_incomplete_tool_call(_truncate_to_first_function(gen.accumulated)),
                        TRUE)
            /\ UNCHANGED <<sideVars, poolVars, costVars, acctVars, config>>
       ELSE /\ gen' = [read EXCEPT !.done_streaming = @ + 1]
            /\ UNCHANGED <<sideVars, poolVars, costVars, acctVars, config, llm, obs>>

\* Mode A after the marker: the chunk is appended to chunks and its text is
\* not looked at; up to five more chunks are read, and the loop breaks on a
\* chunk with usage or on the fifth; then the usage is added to the stats
\* and the terminal snapshot is yielded
ChunkAfterMarkerA(delta, usage) ==
    LET read == [gen EXCEPT !.late = Append(@, [delta |-> delta, usage |-> usage])] IN
    /\ gen.pc = "stream"
    /\ gen.endpoint = 0
    /\ gen.done_streaming >= 1
    /\ IF usage # NoUsage \/ gen.done_streaming + 1 > 5
       THEN /\ llm' = [llm EXCEPT !.stats =
                        IF usage # NoUsage THEN AddUsage(@, config.model_name, usage)
                        ELSE IF gen.usage # NoUsage
                        THEN AddUsage(@, config.model_name, gen.usage) ELSE @]
            /\ gen' = [read EXCEPT !.pc = "terminal",
                                   !.usage = IF usage # NoUsage THEN usage ELSE @]
            /\ obs' = Yielded(obs,
                        fix_incomplete_tool_call(_truncate_to_first_function(gen.accumulated)),
                        TRUE)
            /\ UNCHANGED <<sideVars, poolVars, costVars, acctVars, config>>
       ELSE /\ gen' = [read EXCEPT !.done_streaming = @ + 1]
            /\ UNCHANGED <<sideVars, poolVars, costVars, acctVars, config, llm, obs>>

\* the stream ends (Mode A: the iterator is exhausted; Mode B: [DONE], the
\* end of the lines, or the line after the marker)
StreamEnds ==
    /\ gen.pc = "stream"
    /\ Terminal(gen.usage)

\* a variant in which the exception arrives after the terminal snapshot
StreamFails_after_terminal(code) ==
    /\ gen.pc \in {"stream", "terminal"}
    /\ gen.endpoint # 0 => code = None
    /\ Except(pool, accounts_file, llm.stats, code)

\* the stream breaks with an exception that is neither HTTPStatusError nor
\* ConnectError (Mode B) or that litellm raises (Mode A)
StreamFails(code) ==
    /\ gen.pc = "stream"
    /\ gen.endpoint # 0 => code = None
    /\ Except(pool, accounts_file, llm.stats, code)

\* the caller asks for the next value after the terminal one: generate returns
Return ==
    /\ gen.pc = "terminal"
    /\ gen' = [gen EXCEPT !.pc = "returned"]
    /\ UNCHANGED <<sideVars, poolVars, costVars, acctVars, config, llm, obs>>

\* the caller closes the generator, or its task is cancelled
Aclose ==
    /\ gen.pc \in {"request", "stream", "terminal"}
    /\ gen' = [gen EXCEPT !.pc = "closed"]
    /\ UNCHANGED <<sideVars, poolVars, costVars, acctVars, config, llm, obs>>

\* the usage a chunk may carry
Usages ==
    {NoUsage, [input_tokens |-> 1000, output_tokens |-> 200, cached_tokens |-> 100]}

InitGenerate(pools, models, retries, fallbacks) ==
    /\ pool \in pools
    /\ InitVarsPool
    /\ InitQuiet
    /\ config \in [model_name : models, max_retries : retries, auto_fallback : fallbacks]
    /\ llm = [tried_models |-> {}, stats |-> NoStats]
    /\ gen = IdleGen
    /\ obs = NewCallObs(0, NoStats)

\* Dispatch: one generate call with the default retry limit or a limit of
\* one retry, on a pool of at most one account; the text of a response is
\* one symbol
DispatchModels ==
    {Name("openai", "gpt-5"), Name("antigravity", "gemini-2.5-flash-thinking"),
     Name("antigravity", "gemini-3-pro-image")}

DispatchPools ==
    {[accounts |-> accts, active_index |-> 0, strategy |-> "sticky"] :
        accts \in {<<>>, <<AccountEntry("a@x", 1)>>}}

\* the default limit of five retries goes with the models that have at most
\* one fallback left, a limit of one retry with every model
InitDispatch ==
    \/ InitGenerate(DispatchPools, DispatchModels, {1}, BOOLEAN)
    \/ InitGenerate(DispatchPools, DispatchModels, {5}, {FALSE})
    \/ InitGenerate(DispatchPools, {Name("antigravity", "gemini-2.5-flash-thinking")},
                    {5}, {TRUE})

NextDispatch ==
    \/ GenerateCall(1)
    \/ BeginAttemptA
    \/ BeginAttemptB
    \/ StreamOpens
    \/ \E code \in {None, 400, 429, 500} : RequestFailsA(code)
    \/ \E code \in {400, 401, 404, 500} : StatusErrorB(code)
    \/ ConnectErrorB
    \/ Chunk(<<"x">>, NoUsage, 1)
    \/ StreamEnds
    \/ StreamFails(None)
    \/ Return

SpecDispatch == InitDispatch /\ [][NextDispatch]_vars

\* Fallback: several generate calls on one Mode B instance with one account
\* and a limit of one retry, the model in the chain, at its end or outside it
FallbackModels ==
    {Name("antigravity", "claude-sonnet-4-5"), Name("antigravity", "gemini-3-pro-image"),
     Name("antigravity", "gemini-2.5-flash-lite"), Name("", "gemini-2.5-pro")}

FallbackPools ==
    {[accounts |-> <<AccountEntry("a@x", 1)>>, active_index |-> 0, strategy |-> "sticky"]}

InitFallback == InitGenerate(FallbackPools, FallbackModels, {1}, BOOLEAN)

NextFallback ==
    \/ GenerateCall(MaxCalls)
    \/ BeginAttemptB
    \/ StreamOpens
    \/ \E code \in {400, 401} : StatusErrorB(code)
    \/ Chunk(<<"x">>, NoUsage, 1)
    \/ StreamEnds
    \/ Return

SpecFallback == InitFallback /\ [][NextFallback]_vars

\* Rotation: 429s on pools of two or three accounts under both strategies,
\* with a limit of one retry
RotationModels == {Name("openai", "gpt-5"), Name("antigravity", "gemini-2.5-flash-lite")}

RotationPools ==
    LoadablePools(2 .. 3,
        <<{AccountEntry("a@x", 1), Limited("a@x", 1, 30, PriorAgo)},
          {AccountEntry("b@y", 1), [AccountEntry("b@y", 1) EXCEPT !.enabled = FALSE]},
          {AccountEntry("c@z", 1)}>>)

InitRotation == InitGenerate(RotationPools, RotationModels, {1}, {TRUE})

NextRotation ==
    \/ GenerateCall(1)
    \/ BeginAttemptA
    \/ BeginAttemptB
    \/ StreamOpens
    \/ \E code \in {429, 500} : RequestFailsA(code)
    \/ \E code \in {429, 500} : StatusErrorB(code)
    \/ Chunk(<<"x">>, NoUsage, 1)
    \/ StreamEnds
    \/ Return

SpecRotation == InitRotation /\ [][NextRotation]_vars

\* Stream: one generate call with a limit of one retry, the text arriving
\* in chunks with and without the marker, on one or two accounts
Deltas == {<<"x">>, <<"F">>, <<"E">>, <<"E", "x">>}

StreamPools ==
    {[accounts |-> accts, active_index |-> 0, strategy |-> "sticky"] :
        accts \in {<<AccountEntry("a@x", 1)>>,
                   <<AccountEntry("a@x", 1), AccountEntry("b@y", 1)>>}}

\* one retry without fallback, or fallback without a retry
InitStream ==
    \/ InitGenerate(StreamPools, {Name("openai", "gpt-5")}, {1}, {TRUE})
    \/ InitGenerate(StreamPools, {Name("antigravity", "claude-sonnet-4-5")}, {1}, {FALSE})
    \/ InitGenerate(StreamPools, {Name("antigravity", "gemini-2.5-flash-thinking")},
                    {0}, {TRUE})

NextStream ==
    \/ GenerateCall(1)
    \/ BeginAttemptA
    \/ BeginAttemptB
    \/ StreamOpens
    \/ \E code \in {400, 429} : RequestFailsA(code)
    \/ \E code \in {400, 404, 429} : StatusErrorB(code)
    \/ ConnectErrorB
    \/ \E delta \in Deltas \cup {<<>>}, usage \in Usages : Chunk(delta, usage, MaxLen)
    \/ \E delta \in {<<>>, <<"x">>}, usage \in Usages : ChunkAfterMarkerA(delta, usage)
    \/ StreamEnds
    \/ StreamFails(None)
    \/ Return
    \/ Aclose

SpecStream == InitStream /\ [][NextStream]_vars

----------------------------------------------------------------------------
(* Claims about the account pool.                                          *)

\* the results of the current run of rotate calls between positions i and j-1
Between(run, i, j) == {run.returned[k] : k \in i .. (j - 1)}

\* rotate never returns the account that was at active_index when it was called
NeverTheActive ==
    \A j \in DOMAIN rotRun.returned : rotRun.returned[j] # rotRun.before[j]

\* in a run of rotate calls no account is returned a second time before
\* every viable account was returned
CyclesThroughViable ==
    \A i, j \in DOMAIN rotRun.returned :
        (i < j /\ rotRun.returned[i] # None /\ rotRun.returned[i] = rotRun.returned[j])
            => rotRun.viable \subseteq Between(rotRun, i, j)

\* after as many calls as there are accounts, a sticky pool has settled on
\* its first viable account
ConvergesToFirstViable ==
    (/\ pool.strategy = "sticky"
     /\ Len(rotRun.returned) >= Len(pool.accounts)
     /\ rotRun.returned[Len(rotRun.returned)] # None)
        => rotRun.returned[Len(rotRun.returned)] = SetMin(rotRun.viable)

\* C8 (as amended): rotate never returns the account at the current
\* active_index, and repeated calls to rotate with nothing in between visit
\* every enabled, non-cooling, non-rate-limited account before any account
\* is returned a second time, whatever the strategy.
C8_RotationProgress == NeverTheActive /\ CyclesThroughViable

\* C8 (as claimed): the same, with the cycle under round-robin only and,
\* under sticky, convergence to the first viable account.
C8_RotationProgress_Claimed ==
    /\ NeverTheActive
    /\ pool.strategy = "round-robin" => CyclesThroughViable
    /\ ConvergesToFirstViable

\* C8 witness: three viable accounts, and a run of rotate calls that has
\* returned one of them twice
C8_Witness ==
    /\ Cardinality(rotRun.viable) = 3
    /\ \E i, j \in DOMAIN rotRun.returned :
            i < j /\ rotRun.returned[i] # None /\ rotRun.returned[i] = rotRun.returned[j]

\* the step mark_rate_limited(email, ...) on an account of the pool
MarkStep(email) ==
    /\ FirstWithEmail(pool.accounts, email) # 0
    /\ \E model \in Models, r \in ResetSeconds : MarkRateLimited(email, model, r)

\* C9: over mark_rate_limited calls on one account, each less than 120 s
\* after the one before, the cooldown set (cooling_until - now) never
\* decreases and never exceeds 7200 s, whatever peek_best_account,
\* get_best_account and rotate calls come in between.
C9_BackoffMonotone ==
    [][\A email \in Emails :
        MarkStep(email) =>
            /\ prevMark'[email].cooldown <= 7200 * 1000
            /\ (prevMark[email].at # None /\ now - prevMark[email].at < 120 * 1000)
                    => prevMark'[email].cooldown >= prevMark[email].cooldown]_vars

\* C9 witness: an account marked twice in a row within the window, its
\* cooldown at the cap
C9_Witness ==
    \E k \in DOMAIN pool.accounts :
        /\ pool.accounts[k].consecutive_429s >= 5
        /\ prevMark[pool.accounts[k].email].cooldown = 7200 * 1000
        /\ pool.accounts[k].last_429_at = now
        /\ marks >= 2

\* the cooldown tiers of the claim, in seconds
ClaimedTier(n) == CASE n = 0 -> 60 [] n = 1 -> 300 [] n = 2 -> 1800 [] OTHER -> 7200

\* C10: mark_rate_limited on an existing account sets rate_limits[model] to
\* now + reset_seconds * 1000, consecutive_429s to its previous value plus 1
\* when the previous 429 was less than 120 s ago and to 1 otherwise,
\* cooling_until to now + tier[min(consecutive_429s - 1, 3)] and last_429_at
\* to now.
C10_MarkRateLimited ==
    [][\A email \in Emails, model \in Models, r \in ResetSeconds :
        (FirstWithEmail(pool.accounts, email) # 0 /\ MarkRateLimited(email, model, r)) =>
            LET k == FirstWithEmail(pool.accounts, email)
                old == pool.accounts[k]
                new == pool'.accounts[k]
                recent == old.last_429_at # None /\ now - old.last_429_at < 120 * 1000
                n == IF recent THEN old.consecutive_429s + 1 ELSE 1
            IN  /\ new.rate_limits[model] = now + r * 1000
                /\ new.consecutive_429s = n
                /\ new.cooling_until = now + ClaimedTier(Min(n - 1, 3)) * 1000
                /\ new.last_429_at = now
                /\ accounts_file' = pool']_vars

\* C10 witness: a first 429 on a new account and a second one ten seconds
\* later: consecutive_429s = 2 and a cooldown of 300 s
C10_Witness ==
    \E k \in DOMAIN pool.accounts :
        /\ pool.accounts[k].consecutive_429s = 2
        /\ pool.accounts[k].last_429_at = StartTime + 10000
        /\ pool.accounts[k].cooling_until = now + 300 * 1000
        /\ marks = 2

----------------------------------------------------------------------------
(* Claims about the pricing catalog.                                       *)

\* tier(n, base, above) of the claim
ClaimedTierCost(n, base, above) ==
    IF n <= 200000 \/ above = 0 THEN n * base
    ELSE 200000 * base + (n - 200000) * above

\* C7: for token counts with cached <= input, get_cost of a model with known
\* pricing is tier(input - cached) + tier(output) + tier(cached) at the
\* input, output and cache-read rates, and get_cost of an unknown model is 0.
C7_CacheMath ==
    (cost_call.cost # None /\ cost_call.cached <= cost_call.input) =>
        LET p == get_pricing(cost_call.model) IN
        IF p = NoPricing THEN cost_call.cost = 0
        ELSE cost_call.cost =
                ClaimedTierCost(cost_call.input - cost_call.cached,
                                p.input_cost, p.input_cost_above)
                + ClaimedTierCost(cost_call.output, p.output_cost, p.output_cost_above)
                + ClaimedTierCost(cost_call.cached, p.cache_read_cost,
                                  p.cache_read_cost_above)

\* C7 witness: a call whose regular input, output and cached counts are all
\* above the threshold, on a model whose cache reads are not tiered
C7_Witness ==
    /\ cost_call.cost # None
    /\ cost_call.model = Name("anthropic", "claude-sonnet-4-5-20250514")
    /\ cost_call.cached = _TIERED_THRESHOLD + 1
    /\ cost_call.input = _TIERED_THRESHOLD + MaxOver * 1000
    /\ cost_call.output > _TIERED_THRESHOLD
    /\ cost_call.cost > 0

----------------------------------------------------------------------------
(* Claims about LLM.generate.                                              *)

\* C1: within one generate call, whatever retries, rotations and fallbacks
\* happen, every value yielded after a partial snapshot has a content that
\* the partial's content is a prefix of (each partial is a prefix of the
\* next, and the terminal snapshot extends every partial before it).
C1_CumulativeStream ==
    [][(/\ obs'.calls = obs.calls
        /\ obs'.last # obs.last
        /\ obs.last.some /\ ~obs.last.terminal)
            => IsPrefix(obs.last.content, obs'.last.content)]_vars

\* C2: a generate call that returns has yielded exactly one terminal
\* snapshot, and it is the last value yielded; a call that raises has
\* yielded no terminal snapshot.
C2_OneTerminal ==
    /\ gen.pc = "returned" =>
            obs.terminals = 1 /\ obs.last.some /\ obs.last.terminal
    /\ gen.pc = "raised" => obs.terminals = 0

\* C2 witness: a Mode B call that returned from a request that was retried
\* after a 400 on the second endpoint, after a rotation or a fallback
C2_Witness ==
    /\ gen.pc = "returned"
    /\ gen.endpoint = 2
    /\ gen.retry >= 1
    /\ ~obs.plain
    /\ obs.terminals = 1

\* C3: when an attempt fails with 429 while the pool holds another enabled,
\* non-cooling account that is not rate-limited for the model, the account
\* marked is the one the failed attempt used, the attempt counter keeps its
\* value, and the next attempt of the call uses a different account.
C3_RotateOn429 ==
    (obs.last429.seen /\ obs.last429.other) =>
        /\ obs.last429.marked = obs.last429.used
        /\ obs.last429.attempt_after = obs.last429.attempt_before
        /\ obs.last429.next_started => obs.last429.next_used # obs.last429.used

\* the waits of the claim after the failed attempts 0 .. max_retries - 1
ClaimedSleeps(max_retries) ==
    [i \in 1 .. max_retries |-> IF 2 * (2 ^ (i - 1)) < 10 THEN 2 * (2 ^ (i - 1)) ELSE 10]

\* C4: a generate call in which every attempt failed with a retryable error,
\* without rotation and without fallback, and that has raised, made exactly
\* max_retries + 1 attempts and slept min(10, 2 * 2^attempt) seconds after
\* each of the attempts 0 .. max_retries - 1.
C4_RetryBudget ==
    (gen.pc = "raised" /\ obs.plain /\ obs.retryable) =>
        /\ llm.stats.requests - obs.stats.requests = config.max_retries + 1
        /\ obs.sleeps = ClaimedSleeps(config.max_retries)

\* C4 witness: a call with the default limit that raised after six attempts
\* that failed with retryable errors, the last two waits at the cap
C4_Witness ==
    /\ gen.pc = "raised"
    /\ obs.plain /\ obs.retryable
    /\ config.max_retries = 5
    /\ llm.stats.requests - obs.stats.requests = 6
    /\ obs.sleeps = <<2, 4, 8, 10, 10>>

\* the statuses that are not retried
NonRetryable == {400, 401, 403, 404}

\* the except clause of generate runs in a Mode B step for this status
HandledB(code) ==
    /\ gen.pc = "request"
    /\ gen'.pc \in {"loop", "raised"}
    /\ StatusErrorB(code)

\* the models after the current one in the fallback chain
ChainAfter(bare) ==
    IF ChainIndex(bare) = 0 THEN {}
    ELSE {i \in DOMAIN ANTIGRAVITY_FALLBACK_CHAIN : i > ChainIndex(bare)}

\* the models from gemini-3-flash on
ChainFromFlash ==
    {i \in DOMAIN ANTIGRAVITY_FALLBACK_CHAIN : i >= ChainIndex("gemini-3-flash")}

\* config.model_name changes in fallback steps only
ModelSticks ==
    config'.model_name # config.model_name =>
        gen.pc = "request" /\ gen'.pc = "loop" /\ gen'.attempt = 0

\* the switch to the first model of `candidates` that was not tried, or the
\* error when allowed is false or there is none
SwitchOrRaise(candidates, allowed) ==
    LET untried == {i \in candidates :
                        ANTIGRAVITY_FALLBACK_CHAIN[i]
                            \notin llm.tried_models \cup {Bare(config.model_name)}}
    IN  IF allowed /\ untried # {}
        THEN /\ Bare(config'.model_name) = ANTIGRAVITY_FALLBACK_CHAIN[SetMin(untried)]
             /\ gen'.attempt = 0
             /\ gen'.pc = "loop"
        ELSE /\ gen'.pc = "raised"
             /\ config'.model_name = config.model_name

\* C5 (as amended): in Mode B, when an attempt fails with a non-retryable
\* status and auto fallback is not disabled, generate switches model_name
\* to the first model not tried yet after the current one in the chain, or
\* from gemini-3-flash on when the current model is not in the chain, resets
\* the attempt counter and retries; the error is raised when no such model
\* remains or auto fallback is disabled; model_name changes in no other
\* step, so the switched model stays for later calls.
C5_ModelFallback ==
    [][/\ ModelSticks
       /\ \A code \in NonRetryable :
            HandledB(code) =>
                SwitchOrRaise(IF ChainIndex(Bare(config.model_name)) # 0
                              THEN ChainAfter(Bare(config.model_name))
                              ELSE ChainFromFlash,
                              config.auto_fallback)]_vars

\* C5 (as claimed): the switch goes to the first untried model after the
\* current one in the chain, and the error is raised only when none remains.
C5_ModelFallback_Claimed ==
    [][/\ ModelSticks
       /\ \A code \in NonRetryable :
            HandledB(code) =>
                SwitchOrRaise(ChainAfter(Bare(config.model_name)), TRUE)]_vars

\* C5 witness: a later call at work on the model an earlier call switched
\* to after a 400 that persisted
C5_Witness ==
    /\ obs.calls = 2
    /\ gen.pc = "stream"
    /\ Cardinality(llm.tried_models) >= 2
    /\ Bare(config.model_name) \in llm.tried_models
    /\ now > StartTime

\* the accumulator fields of the claim
Billed(stats) ==
    <<stats.input_tokens, stats.output_tokens, stats.cached_tokens, stats.cost>>

\* C6: as long as no stream of the call has been read to its end, the
\* fields input_tokens, output_tokens, cached_tokens and cost have the
\* values they had when the call started: partial snapshots, failed
\* attempts and a cancellation add nothing.
C6_BilledOnCompletion ==
    (obs.calls >= 1 /\ obs.terminals = 0) => Billed(llm.stats) = Billed(obs.stats)

\* C6 witness: a call cancelled after a partial snapshot and a usage chunk,
\* in a second attempt
C6_Witness ==
    /\ gen.pc = "closed"
    /\ obs.terminals = 0
    /\ obs.last.some
    /\ gen.usage # NoUsage
    /\ llm.stats.requests >= 2


----------------------------------------------------------------------------
(* The read calls of the pool, each recorded with what it returned.        *)

\* list_accounts: the accounts as _load_accounts builds them
list_accounts(p) == p.accounts

\* account_count: the enabled accounts of _load_accounts, counted
account_count(p) == SelectSeq(p.accounts, LAMBDA a : a.enabled)

ReadCall(op, model, idx, returned) ==
    [op |-> op, model |-> model, email |-> NoEmail, credentials |-> None, at |-> now,
     before |-> pool, file |-> accounts_file, idx |-> idx, returned |-> returned]

\* peek_best_account, the AccountEntry it returns recorded
PeekRecorded(model) ==
    LET r == peek_best_account(pool, now, model) IN
    /\ pool' = r.pool
    /\ accounts_file' = Saved(r)
    /\ rotRun' = NoRun
    /\ call' = ReadCall("peek_best_account", model, r.idx,
                        IF r.idx = None THEN <<>>
                        ELSE <<At(_clear_expired_limits(pool.accounts, now), r.idx)>>)
    /\ UNCHANGED <<sideVars, now, ticks, marks, prevMark, costVars, save, peer, sent, genVars>>

\* get_best_account, the AccountEntry it returns recorded
GetBestRecorded(model) ==
    LET r == get_best_account(pool, now, model) IN
    /\ pool' = r.pool
    /\ accounts_file' = Saved(r)
    /\ rotRun' = NoRun
    /\ call' = ReadCall("get_best_account", model, r.idx,
                        IF r.idx = None THEN <<>> ELSE <<At(r.pool.accounts, r.idx)>>)
    /\ UNCHANGED <<sideVars, now, ticks, marks, prevMark, costVars, save, peer, sent, genVars>>

ListAccounts ==
    /\ call' = ReadCall("list_accounts", NoModel, None, list_accounts(pool))
    /\ rotRun' = NoRun
    /\ UNCHANGED <<sideVars, pool, accounts_file, now, ticks, marks, prevMark, costVars,
                   save, peer, sent, genVars>>

AccountCount ==
    /\ call' = ReadCall("account_count", NoModel, None, account_count(pool))
    /\ rotRun' = NoRun
    /\ UNCHANGED <<sideVars, pool, accounts_file, now, ticks, marks, prevMark, costVars,
                   save, peer, sent, genVars>>

\* has_accounts: any(a.enabled for a in _load_accounts(provider_id))
HasAccounts ==
    /\ call' = ReadCall("has_accounts", NoModel, None, account_count(pool))
    /\ rotRun' = NoRun
    /\ UNCHANGED <<sideVars, pool, accounts_file, now, ticks, marks, prevMark, costVars,
                   save, peer, sent, genVars>>

\* Reads: two accounts, the first new, disabled or cooling after one 429 of
\* an earlier run, the second new or cooling; or three new accounts
ReadPools ==
    LoadablePools({2}, <<Loadable("a@x", {1}),
                         {AccountEntry("b@y", 2), Limited("b@y", 1, 30, PriorAgo)}>>)
    \cup LoadablePools({3}, <<{AccountEntry("a@x", 1)}, {AccountEntry("b@y", 2)},
                              {AccountEntry("c@z", 3)}>>)

InitRead ==
    /\ pool \in ReadPools
    /\ InitVarsPool
    /\ InitQuiet
    /\ IdleDispatch

NextRead ==
    \/ \E model \in Models \cup {NoModel} : PeekRecorded(model)
    \/ \E model \in Models \cup {NoModel} : GetBestRecorded(model)
    \/ ListAccounts
    \/ AccountCount
    \/ HasAccounts
    \/ \E model \in Models : MarkRateLimited("b@y", model, 30)
    \/ Tick(61000)

SpecRead == InitRead /\ [][NextRead]_vars

----------------------------------------------------------------------------
(* Accounts added and removed, by two AccountPool instances on one file.   *)

\* a call on an AccountPool instance whose cache is `cache` when it starts
PoolCall(op, email, credentials, cache) ==
    [op |-> op, model |-> NoModel, email |-> email, credentials |-> credentials,
     at |-> now, before |-> cache, file |-> accounts_file, idx |-> None,
     returned |-> <<>>]

AddAccount(email, credentials) ==
    LET r == add_account(pool, email, credentials) IN
    /\ pool' = r.pool
    /\ accounts_file' = Saved(r)
    /\ rotRun' = NoRun
    /\ call' = PoolCall("add_account", email, credentials, pool)
    /\ UNCHANGED <<sideVars, now, ticks, marks, prevMark, costVars, save, peer, sent, genVars>>

RemoveAccount(email) ==
    LET r == remove_account(pool, email) IN
    /\ pool' = r.pool
    /\ accounts_file' = Saved(r)
    /\ rotRun' = NoRun
    /\ call' = PoolCall("remove_account", email, None, pool)
    /\ UNCHANGED <<sideVars, now, ticks, marks, prevMark, costVars, save, peer, sent, genVars>>

UpdateCredentials(email, credentials) ==
    LET r == update_credentials(pool, email, credentials) IN
    /\ pool' = r.pool
    /\ accounts_file' = Saved(r)
    /\ rotRun' = NoRun
    /\ call' = PoolCall("update_credentials", email, credentials, pool)
    /\ UNCHANGED <<sideVars, now, ticks, marks, prevMark, costVars, save, peer, sent, genVars>>

\* _load of the second instance: the file is read on the first call only,
\* afterwards the cached _pools is returned
PeerLoad == IF peer.loaded THEN peer.pools ELSE accounts_file

\* a call on the second instance: it works on its own cache and writes the
\* whole cache to the file when the call saves
PeerCall(op, email, credentials) ==
    LET done(r) ==
            /\ peer' = [loaded |-> TRUE, pools |-> r.pool]
            /\ accounts_file' = IF r.saved THEN r.pool ELSE accounts_file
    IN  /\ CASE op = "add_account" -> done(add_account(PeerLoad, email, credentials))
             [] op = "remove_account" -> done(remove_account(PeerLoad, email))
             [] op = "get_best_account" -> done(get_best_account(PeerLoad, now, NoModel))
        /\ call' = PoolCall(op, email, credentials, PeerLoad)
        /\ UNCHANGED <<sideVars, pool, now, ticks, marks, rotRun, prevMark, costVars, save, sent,
                       genVars>>

\* Accounts: the file is empty or holds one account when the first instance
\* loads it; the second instance loads it at its first call
InitAccounts ==
    /\ pool \in LoadablePools(0 .. 1, <<{AccountEntry("a@x", 1)}>>)
    /\ InitVarsPool
    /\ InitQuiet
    /\ IdleDispatch

NextAccounts ==
    \/ \E credentials \in {1, 2} : AddAccount("a@x", credentials)
    \/ AddAccount("b@y", 1)
    \/ \E email \in {"a@x", "b@y"} : RemoveAccount(email)
    \/ UpdateCredentials("a@x", 2)
    \/ GetBestRecorded(NoModel)
    \/ \E email \in {"a@x", "b@y"} : PeerCall("add_account", email, 1)
    \/ PeerCall("remove_account", "b@y", None)
    \/ PeerCall("get_best_account", NoEmail, None)

SpecAccounts == InitAccounts /\ [][NextAccounts]_vars

----------------------------------------------------------------------------
(* _save step by step: the temporary file, os.replace, and a crash.        *)

\* _load of a process that has no cache yet: the content of accounts.json,
\* and no pools when the bytes do not parse (JSONDecodeError)
_load == IF save.target = "complete" THEN accounts_file ELSE DefaultPool

\* add_account up to the call of _save: the cached pool is updated
StartAdd(email, credentials) ==
    /\ save.pc = "idle"
    /\ pool' = add_account(pool, email, credentials).pool
    /\ save' = [save EXCEPT !.pc = "mkstemp", !.data = pool', !.prev = accounts_file]
    /\ call' = PoolCall("add_account", email, credentials, pool)
    /\ UNCHANGED <<sideVars, accounts_file, now, ticks, marks, rotRun, prevMark, costVars, peer,
                   sent, genVars>>

\* remove_account of an account that is there, up to the call of _save
StartRemove(email) ==
    /\ save.pc = "idle"
    /\ remove_account(pool, email).saved
    /\ pool' = remove_account(pool, email).pool
    /\ save' = [save EXCEPT !.pc = "mkstemp", !.data = pool', !.prev = accounts_file]
    /\ call' = PoolCall("remove_account", email, None, pool)
    /\ UNCHANGED <<sideVars, accounts_file, now, ticks, marks, rotRun, prevMark, costVars, peer,
                   sent, genVars>>

\* variant: no temporary file, accounts.json itself is opened for writing
Mkstemp_in_place ==
    /\ save.pc = "mkstemp"
    /\ save' = [save EXCEPT !.pc = "dump", !.tmp = "empty", !.target = "empty"]
    /\ UNCHANGED <<sideVars, poolVars, costVars, call, peer, sent, genVars>>

\* tempfile.mkstemp(dir=config_dir): an empty file next to accounts.json
Mkstemp ==
    /\ save.pc = "mkstemp"
    /\ save' = [save EXCEPT !.pc = "dump", !.tmp = "empty"]
    /\ UNCHANGED <<sideVars, poolVars, costVars, call, peer, sent, genVars>>

\* json.dump into the temporary file, in two writes
Dump ==
    /\ save.pc = "dump"
    /\ save' = IF save.tmp = "empty" THEN [save EXCEPT !.tmp = "partial"]
               ELSE [save EXCEPT !.tmp = "complete", !.pc = "chmod"]
    /\ UNCHANGED <<sideVars, poolVars, costVars, call, peer, sent, genVars>>

\* os.chmod(tmp_path, 0o600)
Chmod ==
    /\ save.pc = "chmod"
    /\ save' = [save EXCEPT !.pc = "replace"]
    /\ UNCHANGED <<sideVars, poolVars, costVars, call, peer, sent, genVars>>

\* os.replace(tmp_path, accounts_file): the file takes the temporary file's
\* bytes in one step
Replace ==
    /\ save.pc = "replace"
    /\ accounts_file' = save.data
    /\ save' = [save EXCEPT !.pc = "idle", !.target = save.tmp, !.tmp = "none"]
    /\ UNCHANGED <<sideVars, pool, now, ticks, marks, rotRun, prevMark, costVars, call, peer,
                   sent, genVars>>

\* an exception in _save (a full disk, say): the temporary file is
\* unlinked and the exception propagates; the cached pool keeps the update
SaveRaises ==
    /\ save.pc \in {"mkstemp", "dump", "chmod", "replace"}
    /\ save' = [save EXCEPT !.pc = "idle", !.tmp = "none"]
    /\ UNCHANGED <<sideVars, poolVars, costVars, call, peer, sent, genVars>>

\* the process is killed at any point and a new process loads the file;
\* a temporary file left behind is never read
Crash ==
    /\ pool' = _load
    /\ save' = [save EXCEPT !.pc = "idle", !.tmp = "none"]
    /\ call' = NoCall
    /\ UNCHANGED <<sideVars, accounts_file, now, ticks, marks, rotRun, prevMark, costVars, peer,
                   sent, genVars>>

\* another process reads accounts.json at any point of the write
FreshRead ==
    /\ call' = [PoolCall("_load", NoEmail, None, _load) EXCEPT
                    !.returned = <<save.prev, save.data>>]
    /\ UNCHANGED <<sideVars, poolVars, costVars, save, peer, sent, genVars>>

\* the first process starts on a missing file
InitSave ==
    /\ pool = DefaultPool
    /\ InitVarsPool
    /\ InitQuiet
    /\ IdleDispatch

NextSave ==
    \/ \E credentials \in {1, 2} : StartAdd("a@x", credentials)
    \/ StartAdd("b@y", 1)
    \/ \E email \in {"a@x", "b@y"} : StartRemove(email)
    \/ Mkstemp
    \/ Dump
    \/ Chmod
    \/ Replace
    \/ SaveRaises
    \/ Crash
    \/ FreshRead

SpecSave == InitSave /\ [][NextSave]_vars

----------------------------------------------------------------------------
(* The credentials of an attempt, in both modes.                           *)

\* OAuthCredentials(type="oauth", ...); extra["email"] is the account's email
OAuthCredentials(email, access_token, refresh_token, expires_at) ==
    [type |-> "oauth", access_token |-> access_token, refresh_token |-> refresh_token,
     expires_at |-> expires_at, email |-> email]

\* OAuthCredentials.is_expired
is_expired(credentials, now_ms) == credentials.expires_at <= now_ms

\* refresh_token of the provider, when the token endpoint answers: a new
\* access token that expires_in (3600 s) later
refresh_token(credentials, now_ms) ==
    [credentials EXCEPT !.access_token = @ + 1, !.expires_at = now_ms + 3600 * 1000]

\* Mode A, _build_completion_args and the request: should_use_oauth finds
\* accounts, get_provider_headers and get_provider_api_key each go through
\* get_credentials and get_best_account, and the api key is the access
\* token of the credentials as they are
SendA ==
    LET send(api_key) ==
            /\ pool' = api_key.pool
            /\ accounts_file' = Saved(api_key)
            /\ sent' = Request("A", At(api_key.pool.accounts, api_key.idx).credentials,
                               At(api_key.pool.accounts, api_key.idx).credentials.access_token,
                               "none", "none", now)
        with_headers(headers) == send(get_best_account(headers.pool, now, NoModel))
    IN  /\ ~_is_antigravity(config.model_name, pool)
        /\ has_accounts(pool)
        /\ with_headers(get_best_account(pool, now, NoModel))
        /\ rotRun' = NoRun
        /\ UNCHANGED <<sideVars, now, ticks, marks, prevMark, costVars, call, save, peer, genVars>>

\* Mode B, the head of _stream_antigravity and the request: get_credentials
\* through get_best_account, then ensure_valid_credentials, which refreshes
\* expired credentials, stores the new ones with update_credentials, and
\* returns the credentials it was given when the refresh raises; refresh is
\* the answer of the token endpoint
SendB(refresh) ==
    LET keep(r, credentials, tried) ==
            /\ pool' = r.pool
            /\ accounts_file' = Saved(r)
            /\ sent' = Request("B", credentials, credentials.access_token, tried,
                               "none", now)
        refreshed(stored, credentials, new_credentials) ==
            /\ pool' = stored.pool
            /\ accounts_file' = stored.pool
            /\ sent' = Request("B", credentials, new_credentials.access_token, "ok",
                               "none", now)
        ensure(r, credentials) ==
            IF credentials.type # "oauth"
            THEN /\ pool' = r.pool
                 /\ accounts_file' = Saved(r)
                 /\ sent' = Request("B", credentials, None, "none",
                                    "LLMRequestFailedError", now)
            ELSE IF ~is_expired(credentials, now)
            THEN keep(r, credentials, "none")
            ELSE IF credentials.refresh_token = None \/ refresh = "fails"
            THEN keep(r, credentials, "failed")
            ELSE refreshed(update_credentials(r.pool, credentials.email,
                                              refresh_token(credentials, now)),
                           credentials, refresh_token(credentials, now))
        selected(r) == ensure(r, At(r.pool.accounts, r.idx).credentials)
    IN  /\ _is_antigravity(config.model_name, pool)
        /\ has_accounts(pool)
        /\ selected(get_best_account(pool, now, NoModel))
        /\ rotRun' = NoRun
        /\ UNCHANGED <<sideVars, now, ticks, marks, prevMark, costVars, call, save, peer, genVars>>

\* the credentials an account can hold when the process starts: an api key,
\* or OAuth credentials that expired a second ago or expire in 30 s, with a
\* refresh token or without
LoadableCredentials(email) ==
    {[type |-> "api", access_token |-> 1, refresh_token |-> None, expires_at |-> None,
      email |-> email]}
    \cup {OAuthCredentials(email, 1, refresh, expires) :
            refresh \in {None, 7}, expires \in {StartTime - 1000, StartTime + 30000}}

AuthPools ==
    LoadablePools(1 .. 2,
        <<{AccountEntry("a@x", c) : c \in LoadableCredentials("a@x")},
          {AccountEntry("b@y", c) : c \in LoadableCredentials("b@y")}>>)

AuthModels == {Name("openai", "gpt-5"), Name("antigravity", "gemini-2.5-flash-thinking")}

InitAuth == InitGenerate(AuthPools, AuthModels, {1}, {TRUE})

NextAuth ==
    \/ SendA
    \/ \E refresh \in {"ok", "fails"} : SendB(refresh)
    \/ \E d \in TickSteps : Tick(d)

SpecAuth == InitAuth /\ [][NextAuth]_vars

----------------------------------------------------------------------------
(* C11: the account peek_best_account or get_best_account returns.         *)

Selections == {"peek_best_account", "get_best_account"}

\* the account is cooling at the time now_ms
IsCooling(acct, now_ms) == acct.cooling_until # None /\ acct.cooling_until > now_ms

\* C11, as claimed: the account returned by peek_best_account or
\* get_best_account is always enabled and is not cooling (its cooling_until
\* is absent or <= now).
C11_ReturnedUsable_Claimed ==
    (call.op \in Selections /\ call.returned # <<>>) =>
        /\ call.returned[1].enabled
        /\ ~IsCooling(call.returned[1], call.at)

\* C11, amended: the account returned by peek_best_account or
\* get_best_account is always enabled, and it is cooling only when every
\* enabled account of the pool is cooling at the time of the call.
C11_ReturnedUsable ==
    (call.op \in Selections /\ call.returned # <<>>) =>
        /\ call.returned[1].enabled
        /\ call.returned[1].email = At(call.before.accounts, call.idx).email
        /\ IsCooling(call.returned[1], call.at) =>
              \A i \in Indices(call.before.accounts) :
                  At(call.before.accounts, i).enabled =>
                      IsCooling(At(call.before.accounts, i), call.at)

\* a selection under sticky that passed over the active account, which is
\* enabled and cooling, and returned one that is not cooling
C11_Witness ==
    /\ call.op \in Selections
    /\ call.returned # <<>>
    /\ call.before.strategy = "sticky"
    /\ ~IsCooling(call.returned[1], call.at)
    /\ call.idx # call.before.active_index
    /\ At(call.before.accounts, call.before.active_index).enabled
    /\ IsCooling(At(call.before.accounts, call.before.active_index), call.at)

----------------------------------------------------------------------------
(* C12: the model's rate limits in the selection.                          *)

\* the account has an unexpired rate-limit entry for the model
IsLimited(acct, model, now_ms) ==
    model \in DOMAIN acct.rate_limits /\ acct.rate_limits[model] > now_ms

\* C12: when a model is passed to peek_best_account or get_best_account, the
\* returned account has no unexpired rate-limit entry for that model unless
\* every enabled, non-cooling account has one.
C12_NotLimitedForModel ==
    (call.op \in Selections /\ call.model # NoModel /\ call.returned # <<>>) =>
        (IsLimited(call.returned[1], call.model, call.at) =>
            \A i \in Indices(call.before.accounts) :
                (/\ At(call.before.accounts, i).enabled
                 /\ ~IsCooling(At(call.before.accounts, i), call.at))
                => IsLimited(At(call.before.accounts, i), call.model, call.at))

\* a selection for a model that passed over the active account, which is
\* enabled, no longer cooling and still rate-limited for the model
C12_Witness ==
    /\ call.op \in Selections
    /\ call.model # NoModel
    /\ call.returned # <<>>
    /\ ~IsLimited(call.returned[1], call.model, call.at)
    /\ call.idx # call.before.active_index
    /\ At(call.before.accounts, call.before.active_index).enabled
    /\ ~IsCooling(At(call.before.accounts, call.before.active_index), call.at)
    /\ IsLimited(At(call.before.accounts, call.before.active_index), call.model, call.at)

----------------------------------------------------------------------------
(* C13: the account selected, by peek_best_account and get_best_account.   *)

\* the viable candidates in the words of the claims: enabled, not cooling,
\* and without an unexpired rate limit for the model unless all have one
ClaimedCandidates(accounts, now_ms, model) ==
    LET free == {i \in Indices(accounts) :
                    At(accounts, i).enabled /\ ~IsCooling(At(accounts, i), now_ms)}
        unlimited == {i \in free : ~IsLimited(At(accounts, i), model, now_ms)}
    IN  IF model # NoModel /\ unlimited # {} THEN unlimited ELSE free

ClaimedChoice(candidates, active_index, strategy) ==
    IF strategy = "sticky"
    THEN IF active_index \in candidates THEN active_index ELSE SetMin(candidates)
    ELSE IF \E i \in candidates : i > active_index
         THEN SetMin({i \in candidates : i > active_index})
         ELSE SetMin(candidates)

\* C13: peek_best_account and get_best_account select the same account from
\* the same pool state and time: among the viable candidates, under sticky
\* the account at active_index if it is a candidate and otherwise the
\* candidate with the lowest index; under round-robin the candidate with the
\* lowest index strictly greater than active_index, or the lowest-index
\* candidate when none is greater.
C13_SameSelection ==
    (/\ call.op \in Selections
     /\ ClaimedCandidates(call.before.accounts, call.at, call.model) # {})
    => /\ call.idx = ClaimedChoice(
                        ClaimedCandidates(call.before.accounts, call.at, call.model),
                        call.before.active_index, call.before.strategy)
       /\ peek_best_account(call.before, call.at, call.model).idx = call.idx
       /\ get_best_account(call.before, call.at, call.model).idx = call.idx

\* a round-robin selection among three candidates that wraps around: the
\* active account is the last one, so no candidate has a greater index
C13_Witness ==
    /\ call.op \in Selections
    /\ call.before.strategy = "round-robin"
    /\ Len(call.before.accounts) = 3
    /\ call.before.active_index = 2
    /\ Cardinality(ClaimedCandidates(call.before.accounts, call.at, call.model)) = 3
    /\ call.idx = 0

----------------------------------------------------------------------------
(* C14: what peek_best_account leaves behind.                              *)

\* a step of peek_best_account
PeekStep == call'.op = "peek_best_account" /\ call' # call

\* a step of mark_rate_limited right after a peek_best_account
MarkAfterPeek == call.op = "peek_best_account" /\ call.at = now /\ marks' = marks + 1

\* C14: peek_best_account does not mutate pool state: after it returns, the
\* accounts file has not been written and the pool's active_index and every
\* account's stored fields are the same as before the call, so a following
\* mark_rate_limited persists exactly what it would have persisted without
\* the peek.
C14_PeekReadOnly ==
    [][/\ PeekStep => (accounts_file' = accounts_file /\ pool' = pool)
       /\ MarkAfterPeek =>
            \E email \in Emails, model \in Models, reset_seconds \in ResetSeconds :
                accounts_file' =
                    mark_rate_limited(call.before, now, email, model, reset_seconds).pool
      ]_vars

----------------------------------------------------------------------------
(* C16: transient state in what the read calls return.                     *)

ReadOperations ==
    {"list_accounts", "account_count", "has_accounts"} \cup Selections

\* the account carries no transient state whose time has passed
IsExpired(acct, now_ms) ==
    /\ \A m \in DOMAIN acct.rate_limits : acct.rate_limits[m] > now_ms
    /\ acct.cooling_until = None \/ acct.cooling_until > now_ms
    /\ (acct.last_429_at # None /\ now_ms - acct.last_429_at > 120 * 1000)
        => acct.consecutive_429s = 0

\* C16: every read operation of the account pool (list_accounts,
\* account_count, has_accounts, peek_best_account, get_best_account) first
\* expires transient state: no account it returns or counts carries a
\* rate-limit entry or a cooling_until whose time is <= now, nor a non-zero
\* consecutive_429s once more than 120 s have passed since its last_429_at.
C16_ReadsExpire ==
    call.op \in ReadOperations =>
        \A k \in DOMAIN call.returned : IsExpired(call.returned[k], call.at)

----------------------------------------------------------------------------
(* C15: one entry per email.                                               *)

NoDuplicates(accounts) ==
    \A j, k \in DOMAIN accounts : accounts[j].email = accounts[k].email => j = k

\* a step of add_account, on either instance
AddStep == call'.op = "add_account" /\ call' # call

\* C15: after any sequence of pool operations, no account list contains two
\* entries with the same email; add_account with an email that is already
\* present leaves exactly one entry for that email, holding the new
\* credentials, and leaves every other account in the pool.
C15_OnePerEmail ==
    /\ [](/\ NoDuplicates(pool.accounts)
          /\ NoDuplicates(accounts_file.accounts)
          /\ NoDuplicates(peer.pools.accounts))
    /\ [][AddStep =>
            /\ Cardinality({k \in DOMAIN accounts_file'.accounts :
                    accounts_file'.accounts[k].email = call'.email}) = 1
            /\ \A k \in DOMAIN accounts_file'.accounts :
                    accounts_file'.accounts[k].email = call'.email
                    => accounts_file'.accounts[k].credentials = call'.credentials
            /\ \A j \in DOMAIN call'.before.accounts :
                    call'.before.accounts[j].email # call'.email
                    => \E k \in DOMAIN accounts_file'.accounts :
                            accounts_file'.accounts[k] = call'.before.accounts[j]
         ]_vars

\* add_account has replaced the credentials of an email that was present,
\* next to another account that stayed
C15_Witness ==
    /\ call.op = "add_account"
    /\ \E j, k \in DOMAIN call.before.accounts :
          /\ call.before.accounts[j].email = call.email
          /\ call.before.accounts[j].credentials # call.credentials
          /\ call.before.accounts[k].email # call.email
    /\ Len(accounts_file.accounts) = 2
    /\ accounts_file.accounts[2].email = call.email
    /\ accounts_file.accounts[2].credentials = call.credentials

----------------------------------------------------------------------------
(* C18: accounts leave the file through remove_account only.               *)

InFile(file, email) == \E k \in DOMAIN file.accounts : file.accounts[k].email = email

\* C18: an account added with add_account stays in the accounts file until
\* remove_account is called for its email: no other operation, whether
\* executed by the same AccountPool instance or by another instance or
\* process sharing the same accounts file, removes it.
C18_StaysUntilRemoved ==
    [][\A email \in Emails :
          (InFile(accounts_file, email) /\ ~InFile(accounts_file', email))
          => (call'.op = "remove_account" /\ call'.email = email /\ call' # call)
      ]_vars

----------------------------------------------------------------------------
(* C17: the write of accounts.json is atomic.                              *)

\* C17: for every crash point during a write of accounts.json, a fresh read
\* of the file returns either the complete previous content or the complete
\* new content, never an empty or partial file; a reader running
\* concurrently with a writer never observes a torn file.
C17_AtomicWrite ==
    /\ save.target = "complete"
    /\ accounts_file \in {save.prev, save.data}
    /\ call.op = "_load" => call.before \in {call.returned[1], call.returned[2]}
    /\ (call.op = "none" /\ save.pc = "idle") => pool \in {save.prev, save.data}

\* a read while the temporary file is half written returned the previous
\* content, which holds an account and differs from the new content
C17_Witness ==
    /\ call.op = "_load"
    /\ save.pc = "dump"
    /\ save.tmp = "partial"
    /\ call.before = save.prev
    /\ save.prev # save.data
    /\ Len(save.prev.accounts) > 0

----------------------------------------------------------------------------
(* C19, C20: expired OAuth credentials.                                    *)

\* the credentials selected for the latest attempt are OAuth credentials
\* that had expired when the attempt was made
SelectedExpired ==
    /\ sent.mode \in {"A", "B"}
    /\ sent.selected.type = "oauth"
    /\ sent.selected.expires_at <= sent.at

\* C19: in both execution modes, whenever the credential selected for an
\* attempt is an OAuth credential that is expired (expires_at <= now) and
\* has a refresh token, it is refreshed before the request is sent and the
\* request carries the refreshed access token, never the expired one.
C19_RefreshedBeforeSend ==
    (SelectedExpired /\ sent.selected.refresh_token # None /\ sent.refresh # "failed")
    => /\ sent.refresh = "ok"
       /\ sent.access_token # sent.selected.access_token

\* C20: when the selected OAuth credential is expired and the refresh call
\* fails, the dispatch fails with an authentication-expired error, and no
\* request carrying the expired access token is sent to the provider.
C20_RefreshFailure ==
    (SelectedExpired /\ sent.refresh = "failed")
    => /\ sent.error = "AuthenticationExpired"
       /\ sent.access_token # sent.selected.access_token

----------------------------------------------------------------------------
(* The telemetry fan-out: TracerBridge and the websocket handler.          *)

MaxWrites == 2
MaxPolls == 2

\* the keys of the dict in the order the code iterates them
AgentOrder == <<"agent-1", "agent-2">>

\* round(num / den, 1) in tenths, ties to the even digit
Round1(num, den) ==
    LET q == (10 * num) \div den
        r == (10 * num) % den
    IN  IF 2 * r > den \/ (2 * r = den /\ q % 2 = 1) THEN q + 1 ELSE q

\* no result yet, a dict result with these keys and this screenshot value, a
\* string result of this length
NoResult == [kind |-> "none", keys |-> {}, screenshot |-> "", len |-> 0]
DictResult(keys, screenshot) ==
    [kind |-> "dict", keys |-> keys, screenshot |-> screenshot, len |-> 0]
StrResult(len) == [kind |-> "str", keys |-> {}, screenshot |-> "", len |-> len]

\* _serialize_agents: per agent its status and whether it has a screenshot
_serialize_agents(t) ==
    [a \in DOMAIN t.agents |->
        [status |-> t.agents[a],
         has_screenshot |-> a \in DOMAIN t.latest_browser_screenshots]]

\* a variant that keeps every key of a dict result
ToolEntry_keeps_result(exec_id, data) ==
    [execution_id |-> exec_id,
     agent_id |-> data.agent_id,
     tool_name |-> data.tool_name,
     status |-> data.status,
     args |-> data.args \ {"screenshot"},
     result_summary |->
        [kind |-> data.result.kind,
         keys |-> data.result.keys,
         len |-> Min(data.result.len, 500)],
     has_screenshot |->
        IF data.result.kind = "dict"
        THEN (IF data.result.screenshot # "" THEN "true" ELSE "false")
        ELSE "absent"]

\* one entry of _serialize_tools: args and a dict result without the key
\* "screenshot", a string result clipped to 500 characters; has_screenshot
\* is set for a dict result only
ToolEntry(exec_id, data) ==
    [execution_id |-> exec_id,
     agent_id |-> data.agent_id,
     tool_name |-> data.tool_name,
     status |-> data.status,
     args |-> data.args \ {"screenshot"},
     result_summary |->
        [kind |-> data.result.kind,
         keys |-> data.result.keys \ {"screenshot"},
         len |-> Min(data.result.len, 500)],
     has_screenshot |->
        IF data.result.kind = "dict"
        THEN (IF data.result.screenshot # "" THEN "true" ELSE "false")
        ELSE "absent"]

\* _serialize_tools(offset): the executions with an id above the offset
_serialize_tools(t, offset) ==
    LET ids == SelectSeq([i \in DOMAIN t.tool_executions |-> i],
                         LAMBDA i : ~(i <= offset /\ offset > 0))
    IN  [k \in DOMAIN ids |-> ToolEntry(ids[k], t.tool_executions[ids[k]])]

\* _get_stats at the time now_ms: tokens_per_second runs to end_time, or to
\* the clock while the run has no end_time (tool_count and the context
\* limit are left out)
_get_stats(t, now_ms) ==
    LET end == IF t.end_time # None THEN t.end_time ELSE now_ms
        elapsed == end - t.start_time
    IN  [output_tokens |-> t.output_tokens,
         agent_count |-> Cardinality(DOMAIN t.agents),
         vuln_count |-> Len(t.vulnerability_reports),
         start_time |-> t.start_time,
         end_time |-> t.end_time,
         status |-> t.status,
         tokens_per_second |->
            IF t.output_tokens > 0 /\ elapsed > 0
            THEN Round1(t.output_tokens * 1000, elapsed)
            ELSE 0]

\* get_full_state (without its timestamp)
get_full_state(t, now_ms) ==
    [type |-> "full_state",
     agents |-> _serialize_agents(t),
     tools |-> _serialize_tools(t, 0),
     chat |-> t.chat_messages,
     vulnerabilities |-> t.vulnerability_reports,
     streaming |-> t.streaming_content,
     screenshot_agents |-> DOMAIN t.latest_browser_screenshots,
     stats |-> _get_stats(t, now_ms),
     scan_config |-> t.scan_config,
     final_report |-> t.final_scan_result]

\* s[from:], from counted from zero
Slice(s, from) == SubSeq(s, from + 1, Len(s))

\* the branches of _detect_deltas: each yields its deltas, in the order of
\* the code
AgentsDelta(b, t) ==
    IF Cardinality(DOMAIN t.agents) # b.last_agent_count
       \/ t.agents # b.last_agent_statuses
    THEN <<[type |-> "agents_update", agents |-> _serialize_agents(t)]>>
    ELSE <<>>

ToolsDelta(b, t) ==
    IF Len(t.tool_executions) # b.last_tool_count
       /\ _serialize_tools(t, b.last_tool_count) # <<>>
    THEN <<[type |-> "tools_update", tools |-> _serialize_tools(t, b.last_tool_count)]>>
    ELSE <<>>

\* a variant that sends the whole list of messages
ChatDelta_whole_list(b, t) ==
    IF Len(t.chat_messages) # b.last_chat_count
    THEN <<[type |-> "chat_update", messages |-> t.chat_messages]>>
    ELSE <<>>

ChatDelta(b, t) ==
    IF Len(t.chat_messages) # b.last_chat_count
    THEN <<[type |-> "chat_update",
            messages |-> Slice(t.chat_messages, b.last_chat_count)]>>
    ELSE <<>>

VulnerabilityDelta(b, t) ==
    IF Len(t.vulnerability_reports) # b.last_vuln_count
    THEN <<[type |-> "vulnerability_update",
            vulnerabilities |-> Slice(t.vulnerability_reports, b.last_vuln_count)]>>
    ELSE <<>>

StreamingDelta(b, t) ==
    IF t.streaming_content # b.last_streaming
    THEN <<[type |-> "streaming_update", streaming |-> t.streaming_content]>>
    ELSE <<>>

ScreenshotDeltas(b, t) ==
    LET changed == SelectSeq(AgentOrder,
                        LAMBDA a : /\ a \in DOMAIN t.latest_browser_screenshots
                                   /\ Get(b.last_screenshot_ids, a)
                                        # t.latest_browser_screenshots[a])
    IN  [k \in DOMAIN changed |-> [type |-> "screenshot_update", agent_id |-> changed[k]]]

StatsDelta(b, t, now_ms) ==
    IF [json |-> _get_stats(t, now_ms)] # b.last_stats_hash
    THEN <<[type |-> "stats_update", stats |-> _get_stats(t, now_ms)]>>
    ELSE <<>>

ScanConfigDelta(b, t) ==
    IF t.scan_config # None /\ t.scan_config # b.last_scan_config
    THEN <<[type |-> "scan_config_update", scan_config |-> t.scan_config]>>
    ELSE <<>>

ScanCompleteDelta(b, t) ==
    IF t.final_scan_result # None /\ ~b.sent_final_report
    THEN <<[type |-> "scan_complete", final_report |-> t.final_scan_result]>>
    ELSE <<>>

\* a variant that looks at the stats before the streaming content
_detect_deltas_stats_early(b, t, now_ms) ==
    AgentsDelta(b, t) \o ToolsDelta(b, t) \o ChatDelta(b, t)
    \o VulnerabilityDelta(b, t) \o StatsDelta(b, t, now_ms) \o StreamingDelta(b, t)
    \o ScreenshotDeltas(b, t) \o ScanConfigDelta(b, t) \o ScanCompleteDelta(b, t)

\* _detect_deltas: the deltas of this poll
_detect_deltas(b, t, now_ms) ==
    AgentsDelta(b, t) \o ToolsDelta(b, t) \o ChatDelta(b, t)
    \o VulnerabilityDelta(b, t) \o StreamingDelta(b, t) \o ScreenshotDeltas(b, t)
    \o StatsDelta(b, t, now_ms) \o ScanConfigDelta(b, t) \o ScanCompleteDelta(b, t)

\* _detect_deltas: the trackers after this poll
Tracked(b, t, now_ms) ==
    [b EXCEPT
        !.last_agent_count = Cardinality(DOMAIN t.agents),
        !.last_agent_statuses = t.agents,
        !.last_tool_count = Len(t.tool_executions),
        !.last_chat_count = Len(t.chat_messages),
        !.last_vuln_count = Len(t.vulnerability_reports),
        !.last_streaming = t.streaming_content,
        !.last_screenshot_ids = t.latest_browser_screenshots,
        !.last_stats_hash = [json |-> _get_stats(t, now_ms)],
        !.last_scan_config = IF t.scan_config # None THEN t.scan_config ELSE @,
        !.sent_final_report = @ \/ t.final_scan_result # None]

\* add_client and remove_client
add_client(clients, c) ==
    IF \E i \in DOMAIN clients : clients[i] = c THEN clients ELSE Append(clients, c)
\* list.remove takes out the first occurrence
remove_client(clients, c) ==
    IF \E i \in DOMAIN clients : clients[i] = c
    THEN LET k == SetMin({i \in DOMAIN clients : clients[i] = c})
         IN  SubSeq(clients, 1, k - 1) \o SubSeq(clients, k + 1, Len(clients))
    ELSE clients

\* the elements of a sequence
Elements(s) == {s[i] : i \in DOMAIN s}
\* the client side: one delta applied to the state rebuilt so far
ApplyDelta(view, d) ==
    CASE d.type = "agents_update" -> [view EXCEPT !.agents = d.agents]
      [] d.type = "tools_update" -> [view EXCEPT !.tools = @ \o d.tools]
      [] d.type = "chat_update" -> [view EXCEPT !.chat = @ \o d.messages]
      [] d.type = "vulnerability_update" ->
            [view EXCEPT !.vulnerabilities = @ \o d.vulnerabilities]
      [] d.type = "streaming_update" -> [view EXCEPT !.streaming = d.streaming]
      [] d.type = "screenshot_update" ->
            [view EXCEPT !.screenshot_agents = @ \cup {d.agent_id}]
      [] d.type = "stats_update" -> [view EXCEPT !.stats = d.stats]
      [] d.type = "scan_config_update" -> [view EXCEPT !.scan_config = d.scan_config]
      [] d.type = "scan_complete" -> [view EXCEPT !.final_report = d.final_report]

RECURSIVE ApplyDeltas(_, _)
ApplyDeltas(view, deltas) ==
    IF deltas = <<>> THEN view
    ELSE ApplyDeltas(ApplyDelta(view, Head(deltas)), Tail(deltas))

\* the websocket after a frame of this type reached the client
Received(sock, type, view) ==
    [sock EXCEPT !.first = IF @ = "none" THEN type ELSE @,
                 !.last = type,
                 !.view = view]

\* the run writes to the tracer (from its own thread)
Written(t) ==
    /\ tracer.writes < MaxWrites
    /\ tracer' = [t EXCEPT !.writes = tracer.writes + 1]
    /\ poll' = [poll EXCEPT !.fresh = FALSE]
    /\ UNCHANGED <<poolVars, costVars, acctVars, genVars, bridge, ws, statVars, usageVars, endVars, lateVars>>

log_agent_creation(a) ==
    /\ a \notin DOMAIN tracer.agents
    /\ Written([tracer EXCEPT !.agents = Put(@, a, "running")])

update_agent_status(a, status) ==
    /\ a \in DOMAIN tracer.agents
    /\ tracer.agents[a] # status
    /\ Written([tracer EXCEPT !.agents = Put(@, a, status)])

log_tool_execution_start(a, tool_name, args) ==
    Written([tracer EXCEPT !.tool_executions =
                    Append(@, [agent_id |-> a, tool_name |-> tool_name,
                               status |-> "running", args |-> args,
                               result |-> NoResult])])

update_tool_execution(exec_id, result) ==
    /\ exec_id \in DOMAIN tracer.tool_executions
    /\ tracer.tool_executions[exec_id].status = "running"
    /\ Written([tracer EXCEPT !.tool_executions[exec_id] =
                    [@ EXCEPT !.status = "completed", !.result = result]])

\* tracer.latest_browser_screenshots[agent_id] = exec_id
SetLatestScreenshot(exec_id) ==
    /\ exec_id \in DOMAIN tracer.tool_executions
    /\ Get(tracer.latest_browser_screenshots,
           tracer.tool_executions[exec_id].agent_id) # exec_id
    /\ Written([tracer EXCEPT !.latest_browser_screenshots =
                    Put(@, tracer.tool_executions[exec_id].agent_id, exec_id)])

log_chat_message ==
    Written([tracer EXCEPT !.chat_messages = Append(@, Len(@) + 1)])

add_vulnerability_report ==
    Written([tracer EXCEPT !.vulnerability_reports = Append(@, Len(@) + 1)])

update_streaming_content(a) ==
    /\ a \in DOMAIN tracer.agents
    /\ Written([tracer EXCEPT !.streaming_content =
                    Put(@, a, IF a \in DOMAIN @ THEN @[a] + 1 ELSE 1)])

\* tracer.scan_config = a new dict
SetScanConfig ==
    Written([tracer EXCEPT !.scan_config = IF @ = None THEN 1 ELSE @ + 1])

\* a turn of an agent ends: its output tokens are in get_total_llm_stats
AddOutputTokens(n) ==
    /\ tracer.end_time = None
    /\ Written([tracer EXCEPT !.output_tokens = @ + n])

\* the run ends: final report, end_time and status
FinishRun ==
    /\ tracer.final_scan_result = None
    /\ Written([tracer EXCEPT !.final_scan_result = 1, !.end_time = now,
                              !.status = "completed"])

\* a variant that subscribes the client before it awaits accept()
Accept_subscribes(c) ==
    /\ ws[c].pc = "new"
    /\ ws' = [ws EXCEPT ![c].pc = "accepted"]
    /\ bridge' = [bridge EXCEPT !.clients = add_client(@, c)]
    /\ UNCHANGED <<poolVars, costVars, acctVars, genVars, tracer, poll,
                   statVars, usageVars, endVars, lateVars>>

\* websocket_endpoint up to its first await: accept()
Accept(c) ==
    /\ ws[c].pc = "new"
    /\ ws' = [ws EXCEPT ![c].pc = "accepted"]
    /\ UNCHANGED <<poolVars, costVars, acctVars, genVars, tracer, bridge, poll,
                   statVars, usageVars, endVars, lateVars>>

\* websocket_endpoint after accept(): add_client, get_full_state and the
\* send of the full_state frame, which reaches the client or is going to
\* raise
Subscribe(c) ==
    /\ ws[c].pc = "accepted"
    /\ bridge' = [bridge EXCEPT !.clients = add_client(@, c)]
    /\ ws' = [ws EXCEPT ![c] =
                IF @.link = "up"
                THEN [Received(@, "full_state", get_full_state(tracer, now))
                        EXCEPT !.pc = "open"]
                ELSE [@ EXCEPT !.pc = "failing"]]
    /\ UNCHANGED <<poolVars, costVars, acctVars, genVars, tracer, poll,
                   statVars, usageVars, endVars, lateVars>>

\* a variant whose handler ends without remove_client
HandlerExit_keeps(c) ==
    /\ ws[c].pc = "failing"
    /\ ws' = [ws EXCEPT ![c].pc = "done"]
    /\ UNCHANGED <<poolVars, costVars, acctVars, genVars, tracer, bridge, poll,
                   statVars, usageVars, endVars, lateVars>>

\* the send of the full_state frame raises: the handler's finally removes
\* the client
HandlerExit(c) ==
    /\ ws[c].pc = "failing"
    /\ bridge' = [bridge EXCEPT !.clients = remove_client(@, c)]
    /\ ws' = [ws EXCEPT ![c].pc = "done"]
    /\ UNCHANGED <<poolVars, costVars, acctVars, genVars, tracer, poll,
                   statVars, usageVars, endVars, lateVars>>

\* websocket_endpoint after accept() when get_full_state or json.dumps
\* raises: add_client, the exception, and the handler's finally in one step
FullStateFails(c) ==
    /\ ws[c].pc = "accepted"
    /\ bridge' = [bridge EXCEPT !.clients = remove_client(add_client(@, c), c)]
    /\ ws' = [ws EXCEPT ![c].pc = "done"]
    /\ UNCHANGED <<poolVars, costVars, acctVars, genVars, tracer, poll,
                   statVars, usageVars, endVars, lateVars>>

\* the server stops: the keep-alive loop of this handler finds _should_stop
\* set and ends, or the handler's task is cancelled; the finally removes the
\* client
StopSeen(c) ==
    /\ ws[c].pc = "open"
    /\ ws' = [ws EXCEPT ![c].pc = "done"]
    /\ bridge' = [bridge EXCEPT !.clients = remove_client(@, c)]
    /\ UNCHANGED <<poolVars, costVars, acctVars, genVars, tracer, poll,
                   statVars, usageVars, endVars, lateVars>>

\* the keep-alive loop: receive_text timed out, a heartbeat is sent; a send
\* that raises breaks the loop (the 30 s of silence are not counted)
Heartbeat(c) ==
    /\ ws[c].pc = "open"
    /\ ws[c].last # "heartbeat"
    /\ IF ws[c].link = "up"
       THEN /\ ws' = [ws EXCEPT ![c] = Received(@, "heartbeat", @.view)]
            /\ UNCHANGED bridge
       ELSE /\ ws' = [ws EXCEPT ![c].pc = "done"]
            /\ bridge' = [bridge EXCEPT !.clients = remove_client(@, c)]
    /\ UNCHANGED <<poolVars, costVars, acctVars, genVars, tracer, poll,
                   statVars, usageVars, endVars, lateVars>>

\* receive_text raises WebSocketDisconnect: the client went away, the
\* handler's finally removes it
Disconnect(c) ==
    /\ ws[c].pc = "open"
    /\ ws' = [ws EXCEPT ![c].pc = "done", ![c].link = "down"]
    /\ bridge' = [bridge EXCEPT !.clients = remove_client(@, c)]
    /\ UNCHANGED <<poolVars, costVars, acctVars, genVars, tracer, poll,
                   statVars, usageVars, endVars, lateVars>>

\* the connection breaks: from now on a send to this websocket raises
Drop(c) ==
    /\ ws[c].pc \in {"accepted", "open"}
    /\ ws[c].link = "up"
    /\ ws' = [ws EXCEPT ![c].link = "down"]
    /\ UNCHANGED <<poolVars, costVars, acctVars, genVars, tracer, bridge, poll,
                   statVars, usageVars, endVars, lateVars>>

\* _poll_loop wakes from its sleep: with no client it sleeps again; else
\* _detect_deltas runs, and with deltas _broadcast starts on list(_clients)
PollWake ==
    LET broadcast(deltas) ==
            [poll EXCEPT
                !.polls = @ + 1,
                !.fresh = TRUE,
                !.deltas = deltas,
                !.pc = IF deltas # <<>> THEN "broadcast" ELSE "sleep",
                !.queue = IF deltas # <<>> THEN bridge.clients ELSE <<>>,
                !.targets = IF deltas # <<>> THEN Elements(bridge.clients) ELSE {},
                !.dead = <<>>, !.delivered = {}, !.raised = {}]
    IN  /\ poll.pc = "sleep"
        /\ poll.polls < MaxPolls
        /\ now' = now + POLL_INTERVAL
        /\ IF bridge.clients = <<>>
           THEN /\ poll' = [poll EXCEPT !.polls = @ + 1]
                /\ UNCHANGED bridge
           ELSE /\ bridge' = Tracked(bridge, tracer, now')
                /\ poll' = broadcast(_detect_deltas(bridge, tracer, now'))
        /\ UNCHANGED <<pool, accounts_file, ticks, marks, rotRun, prevMark, costVars,
                       acctVars, genVars, tracer, ws, statVars, usageVars, endVars, lateVars>>

\* a variant that gives up the broadcast at the first send that raises
BroadcastSend_stops ==
    LET c == Head(poll.queue) IN
    /\ poll.pc = "broadcast"
    /\ poll.queue # <<>>
    /\ IF ws[c].link = "up" /\ ws[c].pc # "done"
       THEN /\ ws' = [ws EXCEPT ![c] =
                        Received(@, "delta_batch",
                                 IF @.view = NoView THEN NoView
                                 ELSE ApplyDeltas(@.view, poll.deltas))]
            /\ poll' = [poll EXCEPT !.queue = Tail(@), !.delivered = @ \cup {c}]
       ELSE /\ poll' = [poll EXCEPT !.queue = <<>>, !.dead = Append(@, c),
                                    !.raised = @ \cup {c}]
            /\ UNCHANGED ws
    /\ UNCHANGED <<poolVars, costVars, acctVars, genVars, tracer, bridge,
                   statVars, usageVars, endVars, lateVars>>

\* _broadcast, one turn of its loop: send_text to the next client of the
\* list; a send that raises puts the client on the list dead
BroadcastSend ==
    LET c == Head(poll.queue) IN
    /\ poll.pc = "broadcast"
    /\ poll.queue # <<>>
    /\ IF ws[c].link = "up" /\ ws[c].pc # "done"
       THEN /\ ws' = [ws EXCEPT ![c] =
                        Received(@, "delta_batch",
                                 IF @.view = NoView THEN NoView
                                 ELSE ApplyDeltas(@.view, poll.deltas))]
            /\ poll' = [poll EXCEPT !.queue = Tail(@), !.delivered = @ \cup {c}]
       ELSE /\ poll' = [poll EXCEPT !.queue = Tail(@), !.dead = Append(@, c),
                                    !.raised = @ \cup {c}]
            /\ UNCHANGED ws
    /\ UNCHANGED <<poolVars, costVars, acctVars, genVars, tracer, bridge,
                   statVars, usageVars, endVars, lateVars>>

\* _broadcast after its loop: remove_client for every client on dead
RECURSIVE RemoveAll(_, _)
RemoveAll(clients, dead) ==
    IF dead = <<>> THEN clients
    ELSE RemoveAll(remove_client(clients, Head(dead)), Tail(dead))

BroadcastEnd ==
    /\ poll.pc = "broadcast"
    /\ poll.queue = <<>>
    /\ bridge' = [bridge EXCEPT !.clients = RemoveAll(@, poll.dead)]
    /\ poll' = [NewPoll EXCEPT !.polls = poll.polls, !.fresh = poll.fresh]
    /\ UNCHANGED <<poolVars, costVars, acctVars, genVars, tracer, ws,
                   statVars, usageVars, endVars, lateVars>>

\* the tracer of the bridge's tests: two agents, three chat messages, a
\* terminal and a browser execution (the latter with a screenshot in its
\* result), one vulnerability report and streaming content
TracerWithData ==
    [NewTracer EXCEPT
        !.agents = Put(Put(EmptyMap, "agent-1", "running"), "agent-2", "running"),
        !.chat_messages = <<1, 2, 3>>,
        !.tool_executions =
            <<[agent_id |-> "agent-1", tool_name |-> "terminal", status |-> "completed",
               args |-> {"command"}, result |-> DictResult({"output"}, "")],
              [agent_id |-> "agent-2", tool_name |-> "browser_action",
               status |-> "completed", args |-> {"url"},
               result |-> DictResult({"screenshot", "url"}, "png")]>>,
        !.latest_browser_screenshots = Put(EmptyMap, "agent-2", 2),
        !.vulnerability_reports = <<1>>,
        !.streaming_content = Put(EmptyMap, "agent-1", 1)]

\* the bridge is constructed on a tracer that is new or holds data already
InitFanout ==
    /\ pool = DefaultPool
    /\ InitVarsPool
    /\ tracer \in {NewTracer, TracerWithData}
    /\ usage_file = NoUsageFile
    /\ adders = NoAdders
    /\ config = [model_name |-> Name("openai", "gpt-5"), max_retries |-> 1,
                 auto_fallback |-> FALSE]
    /\ llm = [tried_models |-> {}, stats |-> NoStats]
    /\ gen = IdleGen
    /\ obs = NewCallObs(0, NoStats)

NextFanout ==
    \/ \E a \in AgentIds : log_agent_creation(a)
    \/ update_agent_status("agent-1", "completed")
    \/ \E args \in {{"url"}, {"url", "screenshot"}} :
            log_tool_execution_start("agent-1", "browser_action", args)
    \/ \E result \in {DictResult({"url", "screenshot"}, "png"),
                      DictResult({"url", "screenshot"}, ""),
                      StrResult(600)} :
            update_tool_execution(Len(tracer.tool_executions), result)
    \/ \E exec_id \in DOMAIN tracer.tool_executions : SetLatestScreenshot(exec_id)
    \/ log_chat_message
    \/ add_vulnerability_report
    \/ update_streaming_content("agent-1")
    \/ SetScanConfig
    \/ AddOutputTokens(100)
    \/ FinishRun
    \/ Accept("ws1")
    \/ ws["ws1"].pc # "new" /\ Accept("ws2")
    \/ \E c \in Clients : Subscribe(c)
    \/ PollWake
    \/ BroadcastSend
    \/ BroadcastEnd

SpecFanout == InitFanout /\ [][NextFanout]_vars

\* Sockets: two clients that connect, lose their connection and go away
\* while the run adds chat messages and the poll loop broadcasts
NextSockets ==
    \/ log_chat_message
    \/ \E c \in Clients : Accept(c)
    \/ \E c \in Clients : Subscribe(c)
    \/ \E c \in Clients : HandlerExit(c)
    \/ \E c \in Clients : FullStateFails(c)
    \/ \E c \in Clients : StopSeen(c)
    \/ \E c \in Clients : Heartbeat(c)
    \/ \E c \in Clients : Disconnect(c)
    \/ \E c \in Clients : Drop(c)
    \/ PollWake
    \/ BroadcastSend
    \/ BroadcastEnd

SpecSockets == InitFanout /\ [][NextSockets]_vars

----------------------------------------------------------------------------
(* C21: what a client rebuilds from its frames is the tracer state.        *)

\* the clients that have received their full_state frame and are subscribed
Subscribed == {c \in Clients : ws[c].pc = "open" /\ ws[c].view # NoView}

\* the fan-out is level with the tracer: the latest poll ran _detect_deltas
\* after the latest write of the run, and its broadcast has finished
Settled == poll.pc = "sleep" /\ poll.fresh

\* C21: starting from the full_state frame a client receives on subscription
\* and applying, in order, every delta_batch frame sent to it afterwards
\* reconstructs the current tracer state exactly, without missing and without
\* duplicated items, for every field of the fan-out, whenever the client
\* subscribes and whether or not other clients were subscribed before.
C21_DeltaCompleteness ==
    Settled => \A c \in Subscribed : ws[c].view = get_full_state(tracer, now)

----------------------------------------------------------------------------
(* C22: a poll that follows a poll without a write in between.             *)

\* a step of _poll_loop that runs _detect_deltas
DetectStep == poll'.polls = poll.polls + 1 /\ bridge.clients # <<>>

\* C22: two consecutive polls of the fan-out with no change of the tracer
\* state in between emit no deltas in the second poll, in every tracer state
\* (also for a run in progress that has produced output tokens).
C22_IdempotentPoll == [][DetectStep /\ poll.fresh => poll'.deltas = <<>>]_vars

----------------------------------------------------------------------------
(* C23, C24: one broadcast, and the first frame of a client.               *)

\* the step that ends a broadcast
BroadcastEnds == poll.pc = "broadcast" /\ poll'.pc = "sleep"

\* C23: one broadcast attempts to send the delta_batch frame to every client
\* subscribed when it starts; exactly the clients whose send raised are
\* removed from the subscriber list, the others stay subscribed, and a
\* failing client does not prevent delivery to the clients after it.
C23_Broadcast ==
    [][BroadcastEnds =>
        /\ poll.delivered \cup poll.raised = poll.targets
        /\ poll.delivered \cap poll.raised = {}
        /\ Elements(bridge'.clients) = Elements(bridge.clients) \ poll.raised]_vars

\* a broadcast to two clients is about to end: the send to the first one
\* raised, the frame reached the second one
C23_Witness ==
    /\ poll.pc = "broadcast"
    /\ poll.queue = <<>>
    /\ \E i, j \in DOMAIN bridge.clients :
            /\ i < j
            /\ bridge.clients[i] \in poll.raised
            /\ bridge.clients[j] \in poll.delivered

\* C24: for every websocket client the first frame sent to it is a full_state
\* frame: under any interleaving of the connection handler with the poll
\* loop, no delta_batch and no heartbeat is sent to a client before it.
C24_FullStateFirst == \A c \in Clients : ws[c].first \in {"none", "full_state"}

\* a client connected while a broadcast was under way, and has received its
\* full_state frame and then a delta_batch and a heartbeat
C24_Witness ==
    \E c \in Clients :
        /\ ws[c].first = "full_state"
        /\ ws[c].last = "heartbeat"
        /\ c \in poll.delivered
        /\ poll.pc = "broadcast"

----------------------------------------------------------------------------
(* C25: tool entries carry no screenshot.                                  *)

\* the entry carries no screenshot, and says has_screenshot exactly for an
\* execution whose result holds a non-empty screenshot
Stripped(entry, t) ==
    /\ "screenshot" \notin entry.args
    /\ "screenshot" \notin entry.result_summary.keys
    /\ entry.has_screenshot = "true"
        <=> /\ t.tool_executions[entry.execution_id].result.kind = "dict"
            /\ t.tool_executions[entry.execution_id].result.screenshot # ""

\* the step in which the handler of c sends the full_state frame
FullStateStep(c) == ws[c].pc = "accepted" /\ ws'[c].pc = "open"

\* C25: no tool entry in any full_state frame or tools_update delta carries a
\* screenshot payload: the key "screenshot" is absent from its args and from
\* its result_summary, and has_screenshot is true exactly when the result of
\* the execution held a non-empty screenshot; every agent with an entry in
\* the latest-screenshot map is listed in screenshot_agents of full_state.
C25_ScreenshotsStripped ==
    [][/\ \A c \in Clients :
            FullStateStep(c) =>
                /\ \A i \in DOMAIN ws'[c].view.tools :
                        Stripped(ws'[c].view.tools[i], tracer)
                /\ DOMAIN tracer.latest_browser_screenshots
                        \subseteq ws'[c].view.screenshot_agents
       /\ DetectStep =>
            \A k \in DOMAIN poll'.deltas :
                poll'.deltas[k].type = "tools_update" =>
                    \A i \in DOMAIN poll'.deltas[k].tools :
                        Stripped(poll'.deltas[k].tools[i], tracer)]_vars

\* a client has received a full_state frame with the entry of an execution
\* whose result holds a screenshot, and a tools_update is being broadcast
\* with the entry of an execution that has the key in its args and a
\* screenshot in its result
C25_Witness ==
    /\ \E c \in Clients : \E i \in DOMAIN tracer.tool_executions :
            /\ ws[c].first = "full_state"
            /\ i \in DOMAIN ws[c].view.tools
            /\ ws[c].view.tools[i].has_screenshot = "true"
            /\ ws[c].view.screenshot_agents # {}
    /\ poll.pc = "broadcast"
    /\ \E k \in DOMAIN poll.deltas :
            /\ poll.deltas[k].type = "tools_update"
            /\ \E i \in DOMAIN poll.deltas[k].tools :
                LET data == tracer.tool_executions[poll.deltas[k].tools[i].execution_id]
                IN  "screenshot" \in data.args /\ data.result.screenshot # ""

----------------------------------------------------------------------------
(* C26: the order of the deltas in a batch.                                *)

\* the place of a delta type in the claimed order
Rank(type) ==
    CASE type = "agents_update" -> 1
      [] type = "tools_update" -> 2
      [] type = "chat_update" -> 3
      [] type = "vulnerability_update" -> 4
      [] type = "streaming_update" -> 5
      [] type = "screenshot_update" -> 6
      [] type = "stats_update" -> 7
      [] type = "scan_config_update" -> 8
      [] type = "scan_complete" -> 9
      [] OTHER -> 0

\* C26: within every delta_batch frame the deltas appear in the fixed order
\* agents_update, tools_update, chat_update, vulnerability_update,
\* streaming_update, screenshot_update(s), stats_update, scan_config_update,
\* scan_complete, and each type other than screenshot_update appears at most
\* once per batch.
C26_DeltaOrder ==
    \A i, j \in DOMAIN poll.deltas :
        /\ Rank(poll.deltas[i].type) # 0
        /\ i < j =>
            /\ Rank(poll.deltas[i].type) <= Rank(poll.deltas[j].type)
            /\ Rank(poll.deltas[i].type) = Rank(poll.deltas[j].type)
                => poll.deltas[i].type = "screenshot_update"

\* a batch with a delta of each of the nine types is being broadcast
C26_Witness ==
    /\ poll.pc = "broadcast"
    /\ {Rank(poll.deltas[i].type) : i \in DOMAIN poll.deltas} = 1..9

----------------------------------------------------------------------------
(* The usage update of a turn, statement by statement, and a reader on     *)
(* another thread.                                                          *)

MaxTurns == 2

\* the four counters of RequestStats the claim names
Counters(stats) ==
    [input_tokens |-> stats.input_tokens, output_tokens |-> stats.output_tokens,
     cached_tokens |-> stats.cached_tokens, cost |-> stats.cost]

\* the usage a response may report
TurnUsages ==
    {[input_tokens |-> 1000, output_tokens |-> 200, cached_tokens |-> 100],
     [input_tokens |-> 500, output_tokens |-> 50, cached_tokens |-> 0]}

\* the statements of the update in the order of the code, in
\* _update_usage_stats (Mode A) and at the end of _do_antigravity_stream
\* (Mode B) alike: the three token counts, then the cost
UpdateStatement(stats, k, usage, cost) ==
    CASE k = 1 -> [stats EXCEPT !.input_tokens = @ + usage.input_tokens]
      [] k = 2 -> [stats EXCEPT !.output_tokens = @ + usage.output_tokens]
      [] k = 3 -> [stats EXCEPT !.cached_tokens = @ + usage.cached_tokens]
      [] k = 4 -> [stats EXCEPT !.cost = @ + cost]

\* the first statement of the update for the usage of the turn that ended
StartUpdate(usage) ==
    /\ turn.pc = "idle"
    /\ turn.turns < MaxTurns
    /\ turn' = [pc |-> "update", done |-> 1, usage |-> usage, before |-> llm.stats,
                cost |-> get_cost(config.model_name, usage.input_tokens,
                                  usage.output_tokens, usage.cached_tokens),
                turns |-> turn.turns + 1]
    /\ llm' = [llm EXCEPT !.stats = UpdateStatement(@, 1, usage, turn'.cost)]
    /\ UNCHANGED <<poolVars, costVars, acctVars, config, gen, obs, guiVars, seen,
                   usageVars, endVars, lateVars>>

\* the next statement of the update
ContinueUpdate ==
    /\ turn.pc = "update"
    /\ llm' = [llm EXCEPT !.stats =
                    UpdateStatement(@, turn.done + 1, turn.usage, turn.cost)]
    /\ turn' = [turn EXCEPT !.done = @ + 1, !.pc = IF turn.done + 1 = 4 THEN "idle" ELSE @]
    /\ UNCHANGED <<poolVars, costVars, acctVars, config, gen, obs, guiVars, seen,
                   usageVars, endVars, lateVars>>

\* a reader on another thread (the fan-out's _get_stats) reads the
\* accumulator; none and all are its counters without and with the update of
\* the turn in progress
ReadStats ==
    /\ seen' = [stats |-> Counters(llm.stats),
                none |-> Counters(IF turn.pc = "update" THEN turn.before ELSE llm.stats),
                all |-> Counters(IF turn.pc = "update"
                                 THEN AddUsage(turn.before, config.model_name, turn.usage)
                                 ELSE llm.stats),
                during |-> turn.pc = "update"]
    /\ UNCHANGED <<poolVars, costVars, acctVars, genVars, guiVars, turn, usageVars, endVars, lateVars>>

StatsModels ==
    {Name("openai", "gpt-5"), Name("antigravity", "gemini-2.5-flash-thinking"),
     Name("antigravity", "gemini-3-pro-image")}

InitStats == InitGenerate({DefaultPool}, StatsModels, {1}, {FALSE})

NextStats ==
    \/ \E usage \in TurnUsages : StartUpdate(usage)
    \/ ContinueUpdate
    \/ ReadStats

SpecStats == InitStats /\ [][NextStats]_vars

----------------------------------------------------------------------------
(* C27: a concurrent reader and the update of one turn.                    *)

\* C27: a reader that runs concurrently with the dispatcher never observes
\* the request-stats accumulator with only part of one turn's update applied:
\* it sees either none or all of that turn's increments to input_tokens,
\* output_tokens, cached_tokens and cost.
C27_AtomicStats == seen.stats = seen.none \/ seen.stats = seen.all

----------------------------------------------------------------------------
(* The lifetime cost in usage.json: add_session_cost from several threads. *)
(* Costs are counted in units of 0.00001, one digit below the four         *)
(* decimals the file keeps.                                                 *)

MaxAdds == 2

Threads == {"t1", "t2"}

\* the session costs a call may add: 0.0003 and 0.00014
SessionCosts == {30, 14}

\* round(lifetime, 4), ties to the even digit
Round4(u) ==
    LET q == u \div 10
        r == u % 10
    IN  10 * (IF r > 5 \/ (r = 5 /\ q % 2 = 1) THEN q + 1 ELSE q)

\* float(_read_usage().get("lifetime_cost", 0.0)): 0.0 without the file
get_lifetime_cost(file) == IF file.exists THEN file.lifetime_cost ELSE 0

\* a thread outside add_session_cost that has made no call yet
NoAdder == [pc |-> "idle", session_cost |-> 0, lifetime |-> 0, calls |-> 0,
            returned |-> None, after_write |-> None]

\* a thread calls add_session_cost(session_cost) and waits for _usage_lock
CallAdd(t, session_cost) ==
    /\ adders.threads[t].pc = "idle"
    /\ adders.threads[t].calls < MaxAdds
    /\ adders' = [adders EXCEPT
                    !.threads[t] = [@ EXCEPT !.pc = "waiting", !.calls = @ + 1,
                                             !.session_cost = session_cost,
                                             !.returned = None, !.after_write = None],
                    !.sum = @ + session_cost,
                    !.exact = @ /\ session_cost % 10 = 0]
    /\ UNCHANGED <<poolVars, costVars, acctVars, genVars, guiVars, statVars, usage_file, endVars, lateVars>>

\* with _usage_lock: the lock is taken when it is free
Acquire(t) ==
    /\ adders.threads[t].pc = "waiting"
    /\ adders.lock = ""
    /\ adders' = [adders EXCEPT !.lock = t, !.threads[t].pc = "locked"]
    /\ UNCHANGED <<poolVars, costVars, acctVars, genVars, guiVars, statVars, usage_file, endVars, lateVars>>

\* usage = _read_usage(); lifetime = float(usage.get(...)) + session_cost
ReadUsage(t) ==
    /\ adders.threads[t].pc = "locked"
    /\ adders' = [adders EXCEPT
                    !.threads[t] = [@ EXCEPT !.pc = "read",
                                             !.lifetime = get_lifetime_cost(usage_file)
                                                + adders.threads[t].session_cost]]
    /\ UNCHANGED <<poolVars, costVars, acctVars, genVars, guiVars, statVars, usage_file, endVars, lateVars>>

\* usage["lifetime_cost"] = round(lifetime, 4); _write_usage(usage), which
\* swallows an OSError; after_write is what a read of the file gives now
WriteUsage(t, ok) ==
    /\ adders.threads[t].pc = "read"
    /\ usage_file' = IF ok
                     THEN [exists |-> TRUE,
                           lifetime_cost |-> Round4(adders.threads[t].lifetime)]
                     ELSE usage_file
    /\ adders' = [adders EXCEPT
                    !.threads[t] = [@ EXCEPT !.pc = "written",
                                             !.after_write = get_lifetime_cost(usage_file')],
                    !.failed = @ \/ ~ok]
    /\ UNCHANGED <<poolVars, costVars, acctVars, genVars, guiVars, statVars, endVars, lateVars>>

\* the lock is released and lifetime is returned
ReturnAdd(t) ==
    /\ adders.threads[t].pc = "written"
    /\ adders' = [adders EXCEPT
                    !.lock = "",
                    !.threads[t] = [@ EXCEPT !.pc = "idle", !.returned = adders.threads[t].lifetime]]
    /\ UNCHANGED <<poolVars, costVars, acctVars, genVars, guiVars, statVars, usage_file, endVars, lateVars>>

\* the file is absent or holds the total of earlier sessions
InitUsage ==
    /\ pool = DefaultPool
    /\ InitVarsPool
    /\ tracer = NewTracer
    /\ usage_file \in {NoUsageFile, [exists |-> TRUE, lifetime_cost |-> 1000]}
    /\ adders = [NoAdders EXCEPT !.threads = [t \in Threads |-> NoAdder],
                                 !.initial = get_lifetime_cost(usage_file)]
    /\ config = [model_name |-> Name("openai", "gpt-5"), max_retries |-> 1,
                 auto_fallback |-> FALSE]
    /\ llm = [tried_models |-> {}, stats |-> NoStats]
    /\ gen = IdleGen
    /\ obs = NewCallObs(0, NoStats)

NextUsage ==
    \/ \E t \in Threads, session_cost \in SessionCosts : CallAdd(t, session_cost)
    \/ \E t \in Threads : Acquire(t)
    \/ \E t \in Threads : ReadUsage(t)
    \/ \E t \in Threads, ok \in BOOLEAN : WriteUsage(t, ok)
    \/ \E t \in Threads : ReturnAdd(t)

SpecUsage == InitUsage /\ [][NextUsage]_vars

----------------------------------------------------------------------------
(* C28: concurrent add_session_cost.                                       *)

\* every call made so far has returned
AllReturned == \A t \in Threads : adders.threads[t].pc = "idle"

\* C28: when several threads of one process call add_session_cost
\* concurrently, no update is lost: after all calls have returned, the
\* persisted lifetime_cost equals the initial value plus the sum of all deltas
\* (for deltas representable at the stored 4-decimal precision), and the
\* value each call returns is the lifetime total that a read of the file
\* right after that call's write would give.
C28_NoLostUpdate ==
    /\ AllReturned /\ adders.exact
        => get_lifetime_cost(usage_file) = adders.initial + adders.sum
    /\ \A t \in Threads :
            adders.threads[t].returned # None
                => adders.threads[t].returned = adders.threads[t].after_write

----------------------------------------------------------------------------
(* Mode B, the endpoint loop of _stream_antigravity, answer by answer.     *)

MaxRuns == 2

\* the retries range(2) allows after a 400
RetryRange == 2

\* httpx.HTTPStatusError with this status code, raised by this endpoint
StatusError(code, endpoint) == [kind |-> "status", code |-> code, endpoint |-> endpoint]

\* httpx.ConnectError, and LLMRequestFailedError("All Antigravity endpoints
\* unreachable.")
ConnectError(endpoint) == [kind |-> "connect", code |-> None, endpoint |-> endpoint]
Unreachable == [kind |-> "unreachable", code |-> None, endpoint |-> 0]

\* the attempt ends by raising this error
Raise(a, error) == [a EXCEPT !.pc = "raised", !.error = error]

\* the for loop goes on: the request to the next endpoint the model may use,
\* or after the last one the raise of last_error or of the unreachable error
Continue(a, last_error) ==
    LET rest == EndpointsAfter(a.endpoint, a.model) IN
    IF rest # {}
    THEN [a EXCEPT !.pc = "request", !.endpoint = SetMin(rest), !.retry = 0,
                   !.last_error = last_error,
                   !.requests = Append(@, SetMin(rest))]
    ELSE Raise([a EXCEPT !.last_error = last_error],
               IF last_error # NoError THEN last_error ELSE Unreachable)

\* the retry loop after a 400: sleep 2 * (retry + 1) seconds and request the
\* same endpoint again, or raise the last 400 after the last retry
Retry(a, code, retries) ==
    IF a.retry < retries
    THEN [a EXCEPT !.retry = @ + 1,
                   !.sleeps = Append(@, 2 * (a.retry + 1)),
                   !.requests = Append(@, a.endpoint)]
    ELSE Raise(a, StatusError(code, a.endpoint))

\* _stream_antigravity enters its loop for the model: the first request
StartAttemptB(model) ==
    /\ attempt_b.pc \in {"idle", "returned", "raised"}
    /\ attempt_b.runs < MaxRuns
    /\ attempt_b' = Continue([NoAttemptB EXCEPT !.model = model,
                                                !.runs = attempt_b.runs + 1], NoError)
    /\ UNCHANGED <<poolVars, costVars, acctVars, genVars, guiVars, statVars, usageVars, lateVars>>

\* the stream of the request succeeds: the attempt returns
AnswerOk ==
    /\ attempt_b.pc = "request"
    /\ attempt_b' = [attempt_b EXCEPT !.pc = "returned", !.answers = Append(@, "ok")]
    /\ UNCHANGED <<poolVars, costVars, acctVars, genVars, guiVars, statVars, usageVars, lateVars>>

\* a variant of the status handling with range(3) for the retries
AnswerStatus_three_retries(code) ==
    LET a == [attempt_b EXCEPT !.answers = Append(@, ToString(code))] IN
    /\ attempt_b.pc = "request"
    /\ attempt_b' =
        IF attempt_b.retry = 0
        THEN CASE code = 429 \/ code \in {401, 403} -> Raise(a, StatusError(code, a.endpoint))
               [] code = 400 -> Retry(a, code, RetryRange + 1)
               [] OTHER -> Continue(a, StatusError(code, a.endpoint))
        ELSE IF code # 400 THEN Raise(a, StatusError(code, a.endpoint))
             ELSE Retry(a, code, RetryRange + 1)
    /\ UNCHANGED <<poolVars, costVars, acctVars, genVars, guiVars, statVars, usageVars, lateVars>>

\* the request raises HTTPStatusError with this code: as the answer to the
\* first request to the endpoint 429, 401 and 403 raise, 400 enters the retry
\* loop, 404 and any other status are kept in last_error and the loop goes
\* on; as the answer to a retry every status but 400 raises
AnswerStatus(code) ==
    LET a == [attempt_b EXCEPT !.answers = Append(@, ToString(code))] IN
    /\ attempt_b.pc = "request"
    /\ attempt_b' =
        IF attempt_b.retry = 0
        THEN CASE code = 429 \/ code \in {401, 403} -> Raise(a, StatusError(code, a.endpoint))
               [] code = 400 -> Retry(a, code, RetryRange)
               [] OTHER -> Continue(a, StatusError(code, a.endpoint))
        ELSE IF code # 400 THEN Raise(a, StatusError(code, a.endpoint))
             ELSE Retry(a, code, RetryRange)
    /\ UNCHANGED <<poolVars, costVars, acctVars, genVars, guiVars, statVars, usageVars, lateVars>>

\* the request raises httpx.ConnectError: the loop goes on and last_error
\* stays; inside the handler of a 400 nothing catches it
AnswerConnectError ==
    LET a == [attempt_b EXCEPT !.answers = Append(@, "connect")] IN
    /\ attempt_b.pc = "request"
    /\ attempt_b' = IF attempt_b.retry = 0 THEN Continue(a, a.last_error)
                    ELSE Raise(a, ConnectError(a.endpoint))
    /\ UNCHANGED <<poolVars, costVars, acctVars, genVars, guiVars, statVars, usageVars, lateVars>>

EndpointModels == {"gemini-2.5-flash-thinking", "claude-sonnet-4-5"}

InitEndpoints == InitGenerate({DefaultPool}, {Name("antigravity", "gemini-2.5-flash-thinking")}, {1}, {FALSE})

NextEndpoints ==
    \/ \E model \in EndpointModels : StartAttemptB(model)
    \/ AnswerOk
    \/ \E code \in {400, 401, 403, 404, 429, 500} : AnswerStatus(code)
    \/ AnswerConnectError

SpecEndpoints == InitEndpoints /\ [][NextEndpoints]_vars

\* an answer arrives for the request in flight
AnswerStep == attempt_b.pc = "request" /\ attempt_b' # attempt_b

\* the answer of that step
Answered == attempt_b'.answers[Len(attempt_b'.answers)]

\* the endpoints the model may use that come after the one in flight
Remaining == EndpointsAfter(attempt_b.endpoint, attempt_b.model)

\* the for loop went on to the next endpoint of the list, or ran out of them
MovedOn ==
    IF Remaining # {}
    THEN /\ attempt_b'.pc = "request"
         /\ attempt_b'.requests = Append(attempt_b.requests, SetMin(Remaining))
    ELSE /\ attempt_b'.pc = "raised"
         /\ attempt_b'.requests = attempt_b.requests

\* the requests of the run, in the order sent, go through the list in order
\* and leave out no endpoint the model may use
InListOrder(a) ==
    /\ \A i \in 1..(Len(a.requests) - 1) : a.requests[i] <= a.requests[i + 1]
    /\ \A i \in DOMAIN a.requests :
           \A j \in EndpointsAfter(0, a.model) :
               j < a.requests[i] => \E k \in 1..(i - 1) : a.requests[k] = j
    /\ IsClaude(a.model) => \A i \in DOMAIN a.requests : IsSandbox(ENDPOINTS[a.requests[i]])

\* the raise after the for loop, when the list is exhausted: the last
\* endpoint failed on its first request with something the loop goes on from
Exhausted ==
    /\ AnswerStep
    /\ attempt_b.retry = 0
    /\ Answered \notin {"ok", "400", "401", "403", "429"}
    /\ Remaining = {}
    /\ attempt_b'.pc = "raised"

\* C29: in one Mode B attempt the endpoints are tried in list order and the
\* production endpoint is never contacted for a Claude model; a 404 or a
\* connect failure moves on to the next endpoint; 401, 403 and 429 end the
\* attempt at once by raising; when the list is exhausted the error raised
\* is an HTTP error recorded from an endpoint if there was one, and the
\* unreachable failure only if every tried endpoint failed to connect.
C29_EndpointOrder ==
    [][/\ InListOrder(attempt_b')
       /\ AnswerStep /\ Answered \in {"404", "connect"} => MovedOn
       /\ AnswerStep /\ Answered \in {"401", "403", "429"} =>
              /\ attempt_b'.pc = "raised"
              /\ attempt_b'.error.kind = "status"
              /\ ToString(attempt_b'.error.code) = Answered
              /\ attempt_b'.requests = attempt_b.requests
       /\ Exhausted =>
              LET answers == attempt_b'.answers IN
              IF \E i \in DOMAIN answers : answers[i] # "connect"
              THEN /\ attempt_b'.error.kind = "status"
                   /\ \E i \in DOMAIN answers :
                          /\ answers[i] = ToString(attempt_b'.error.code)
                          /\ attempt_b'.requests[i] = attempt_b'.error.endpoint
              ELSE attempt_b'.error = Unreachable]_vars

\* C30: when an endpoint answers 400 the same endpoint is retried at most
\* twice, after sleeps of 2 s and then 4 s, before it is given up; a retry
\* that succeeds completes the attempt, and at most three requests go to
\* that endpoint within the attempt.
C30_RetryOn400 ==
    [][AnswerStep =>
        /\ attempt_b'.sleeps \in {<<>>, <<2>>, <<2, 4>>}
        /\ \A e \in DOMAIN ENDPOINTS :
               Cardinality({i \in DOMAIN attempt_b'.requests : attempt_b'.requests[i] = e}) <= 3
        /\ Answered = "400" =>
               IF Len(attempt_b.sleeps) < 2
               THEN /\ attempt_b'.pc = "request"
                    /\ attempt_b'.requests = Append(attempt_b.requests, attempt_b.endpoint)
                    /\ Len(attempt_b'.sleeps) = Len(attempt_b.sleeps) + 1
               ELSE /\ attempt_b'.pc = "raised"
                    /\ attempt_b'.error = StatusError(400, attempt_b.endpoint)
                    /\ attempt_b'.requests = attempt_b.requests
                    /\ attempt_b'.sleeps = attempt_b.sleeps
        /\ Answered = "ok" => attempt_b'.pc = "returned"]_vars

\* the second retry of an endpoint succeeded after two 400s and sleeps of
\* 2 s and 4 s
C30_Witness ==
    /\ attempt_b.pc = "returned"
    /\ attempt_b.sleeps = <<2, 4>>
    /\ Len(attempt_b.requests) >= 3
    /\ LET n == Len(attempt_b.requests) IN
       /\ attempt_b.requests[n] = attempt_b.requests[n - 1]
       /\ attempt_b.requests[n] = attempt_b.requests[n - 2]
       /\ attempt_b.answers[n - 2] = "400" /\ attempt_b.answers[n - 1] = "400"

----------------------------------------------------------------------------
(* Claims about the closing marker in Mode A.                              *)

\* Mode A is reading its stream; after the step it has read the marker
ReadingA == gen.pc = "stream" /\ gen.endpoint = 0
MarkerSeen == gen.done_streaming >= 1

\* a chunk was read after the marker
LateChunk == ReadingA /\ MarkerSeen /\ Len(gen'.late) = Len(gen.late) + 1

\* C31: in Mode A, once the accumulated content contains </function>, the
\* content is cut right after the first marker and one more partial snapshot
\* is yielded; no text of a later chunk is added to a snapshot; reading stops
\* at the first later chunk that carries usage or after five further chunks;
\* the usage of such a trailing chunk is counted in the stats.
C31_AfterMarker ==
    [][/\ ReadingA /\ ~MarkerSeen /\ gen'.pc = "stream"
              /\ FindMarker(gen'.accumulated) # 0 =>
           /\ FindMarker(gen'.accumulated) = Len(gen'.accumulated)
           /\ gen'.done_streaming = 1
           /\ obs'.last = [some |-> TRUE, content |-> gen'.accumulated, terminal |-> FALSE]
       /\ ReadingA /\ ~MarkerSeen /\ gen'.pc = "stream"
              /\ FindMarker(gen'.accumulated) = 0 => gen'.done_streaming = 0
       /\ LateChunk =>
           LET n == Len(gen'.late)
               chunk == gen'.late[n]
           IN  /\ n <= 5
               /\ \A i \in 1..(n - 1) : gen'.late[i].usage = NoUsage
               /\ gen'.accumulated = gen.accumulated
               /\ IF chunk.usage # NoUsage \/ n = 5
                  THEN /\ gen'.pc = "terminal"
                       /\ obs'.last = [some |-> TRUE, content |-> gen.accumulated,
                                       terminal |-> TRUE]
                  ELSE /\ gen'.pc = "stream"
                       /\ obs' = obs
               /\ chunk.usage # NoUsage =>
                   /\ llm'.stats.input_tokens = llm.stats.input_tokens + chunk.usage.input_tokens
                   /\ llm'.stats.output_tokens = llm.stats.output_tokens + chunk.usage.output_tokens
                   /\ llm'.stats.cached_tokens = llm.stats.cached_tokens + chunk.usage.cached_tokens
                   /\ llm'.stats.cost > llm.stats.cost]_vars

\* five chunks were read after the marker, with text among them, and the
\* terminal snapshot ends at the marker
C31_Witness ==
    /\ gen.pc = "terminal"
    /\ gen.endpoint = 0
    /\ Len(gen.late) = 5
    /\ \E i \in 1..5 : gen.late[i].delta # <<>>
    /\ obs.last.terminal
    /\ FindMarker(obs.last.content) = Len(obs.last.content)
    /\ Len(obs.last.content) >= 2

----------------------------------------------------------------------------
(* Login and token refresh on the pool of a multi-account provider.        *)

MaxAccounts == 2

\* f"account-{pool.account_count(provider_id) + 1}"
AccountName(n) == <<"account-1", "account-2", "account-3">>[n]

\* AntigravityProvider.callback: the credentials of a login; the email is
\* the one the userinfo request gave, "unknown" when it failed
callback(userinfo, expires_in, now_ms) ==
    OAuthCredentials(userinfo, 1, 7, now_ms + expires_in * 1000)

\* _provider_login for a multi-account provider: the account is stored under
\* the email of the credentials, or under account-N when there is none
_provider_login(p, credentials) ==
    add_account(p,
                IF credentials.email = "unknown"
                THEN AccountName(Len(account_count(p)) + 1)
                ELSE credentials.email,
                credentials)

\* esprit provider login antigravity
ProviderLogin(userinfo, expires_in) ==
    LET credentials == callback(userinfo, expires_in, now)
        r == _provider_login(pool, credentials)
    IN  /\ Len(pool.accounts) < MaxAccounts
        /\ pool' = r.pool
        /\ accounts_file' = Saved(r)
        /\ rotRun' = NoRun
        /\ call' = PoolCall("add_account", userinfo, credentials, pool)
        /\ UNCHANGED <<sideVars, now, ticks, marks, prevMark, costVars, save, peer, sent,
                       genVars>>

\* the emails update_credentials is called with
RefreshEmails == {"a@x", "account-1", "unknown"}

InitRefresh ==
    InitGenerate({DefaultPool}, {Name("antigravity", "gemini-2.5-flash-thinking")}, {1}, {TRUE})

NextRefresh ==
    \/ \E userinfo \in {"a@x", "unknown"}, expires_in \in {30, 3600} :
           ProviderLogin(userinfo, expires_in)
    \/ \E refresh \in {"ok", "fails"} : SendB(refresh)
    \/ \E email \in RefreshEmails : UpdateCredentials(email, OAuthCredentials(email, 2, 7, now + 3600000))
    \/ \E d \in TickSteps : Tick(d)

SpecRefresh == InitRefresh /\ [][NextRefresh]_vars

\* the attempt refreshed the credentials it selected
Refreshed == sent' # sent /\ sent'.mode = "B" /\ sent'.refresh = "ok"

\* the entry get_best_account selected for the attempt
SelectedEntry == At(pool'.accounts, pool'.active_index)

\* the entry without its credentials
Rest(acct) == [acct EXCEPT !.credentials = None]

\* C32: after a successful token refresh the pool entry whose credential was
\* selected for the attempt holds the refreshed credential, so that the next
\* selection of the account yields a token that is not expired; and
\* update_credentials changes nothing else: the entry's other fields and
\* position, the other accounts and active_index stay.
C32_RefreshStored ==
    [][/\ Refreshed =>
           /\ SelectedEntry.credentials.access_token = sent'.access_token
           /\ ~is_expired(SelectedEntry.credentials, now')
       /\ call' # call /\ call'.op = "update_credentials" =>
           /\ Len(pool'.accounts) = Len(pool.accounts)
           /\ pool'.active_index = pool.active_index
           /\ pool'.strategy = pool.strategy
           /\ \A k \in DOMAIN pool.accounts :
                  /\ Rest(pool'.accounts[k]) = Rest(pool.accounts[k])
                  /\ pool.accounts[k].email # call'.email =>
                         pool'.accounts[k] = pool.accounts[k]]_vars

----------------------------------------------------------------------------
(* C33: the chat and vulnerability deltas of a poll.                       *)

\* the deltas of this type in the batch the poll computed
OfType(deltas, type) == SelectSeq(deltas, LAMBDA d : d.type = type)

\* the items of the list at the positions from last_count on, 0-based
Beyond(list, last_count) == [i \in 1..(Len(list) - last_count) |-> list[last_count + i]]

----------------------------------------------------------------------------
(* Request preparation: memory compression and the tracer's compacting     *)
(* set.  The instances run on the threads of their agents.                  *)

MaxPrepares == 2

\* tracer.compacting_agents.add(agent_id), when the instance has an agent id
Signal(t, i) ==
    IF agent_id(i) # "" THEN [t EXCEPT !.compacting_agents = @ \cup {agent_id(i)}] ELSE t

\* tracer.compacting_agents.discard(agent_id)
Unsignal(t, i) ==
    IF agent_id(i) # "" THEN [t EXCEPT !.compacting_agents = @ \ {agent_id(i)}] ELSE t

\* _prepare_messages up to the call of memory_compressor.compress_history
\* inside _compress_with_tracer_signal
PrepareMessages(i) ==
    /\ prep[i].pc \in {"idle", "returned", "raised"}
    /\ prep[i].calls < MaxPrepares
    /\ prep' = [prep EXCEPT ![i] = [pc |-> "compressing", calls |-> @.calls + 1]]
    /\ tracer' = Signal(tracer, i)
    /\ UNCHANGED <<poolVars, costVars, acctVars, genVars, bridge, ws, poll, statVars,
                   usageVars, endVars, sanitized>>

\* a variant without the finally clause
CompressEnds_no_finally(outcome) ==
    \E i \in Instances :
        /\ prep[i].pc = "compressing"
        /\ prep' = [prep EXCEPT ![i].pc = outcome]
        /\ tracer' = IF outcome = "returned" THEN Unsignal(tracer, i) ELSE tracer
        /\ UNCHANGED <<poolVars, costVars, acctVars, genVars, bridge, ws, poll, statVars,
                       usageVars, endVars, sanitized>>

\* compress_history returns or raises: the finally clause discards the id,
\* then _prepare_messages goes on to return its messages, or raises (the
\* compressor's exception, or one of its own later statements)
CompressEnds(outcome) ==
    \E i \in Instances :
        /\ prep[i].pc = "compressing"
        /\ prep' = [prep EXCEPT ![i].pc = outcome]
        /\ tracer' = Unsignal(tracer, i)
        /\ UNCHANGED <<poolVars, costVars, acctVars, genVars, bridge, ws, poll, statVars,
                       usageVars, endVars, sanitized>>

InitCompress ==
    InitGenerate({DefaultPool}, {Name("openai", "gpt-5")}, {1}, {FALSE})

NextCompress ==
    \/ \E i \in Instances : PrepareMessages(i)
    \/ \E outcome \in {"returned", "raised"} : CompressEnds(outcome)

SpecCompress == InitCompress /\ [][NextCompress]_vars

\* C34: an agent's id is in the tracer's compacting set only while that
\* agent's memory compression is running: it is added before the compressor
\* is called and is no longer in the set once request preparation returns
\* or raises, also when the compressor raises.
C34_CompactingFlag ==
    /\ \A a \in tracer.compacting_agents :
           \E i \in Instances : agent_id(i) = a /\ prep[i].pc = "compressing"
    /\ \A i \in Instances :
           /\ prep[i].pc = "compressing" /\ agent_id(i) # "" =>
                  agent_id(i) \in tracer.compacting_agents
           /\ prep[i].pc \in {"returned", "raised"} =>
                  agent_id(i) \notin tracer.compacting_agents

\* one agent's preparation has raised while another agent is compressing
C34_Witness ==
    /\ prep["llm-1"].pc = "raised"
    /\ prep["llm-2"].pc = "compressing"
    /\ tracer.compacting_agents = {"agent-2"}

----------------------------------------------------------------------------
(* Tool-schema sanitization: esprit/providers/antigravity_format.py.  A    *)
(* JSON object is a function from its keys; a value that is not a dict is   *)
(* NotADict, and a "type" is a record that tells a list from a string.      *)

_TYPE_MAP ==
    [string |-> "STRING", number |-> "NUMBER", integer |-> "INTEGER",
     boolean |-> "BOOLEAN", array |-> "ARRAY", object |-> "OBJECT"]

_UNSUPPORTED_KEYWORDS ==
    {"additionalProperties", "default", "$schema", "$defs", "definitions", "$ref", "$id",
     "$comment", "title", "minLength", "maxLength", "pattern", "format", "minItems",
     "maxItems", "examples", "allOf", "anyOf", "oneOf"}

\* the empty dict
EmptyDict == [k \in {} |-> TRUE]

\* a schema that is not a dict, such as true
NotADict == [notadict |-> TRUE]
IsDict(schema) == DOMAIN schema # {"notadict"}
IsNone(result) == DOMAIN result = {"none"}

\* "type": "t" and "type": ["t", ...]
TypeName(t) == [list |-> FALSE, names |-> <<t>>]
TypeList(names) == [list |-> TRUE, names |-> names]

\* schema.get(key) is truthy, for a key whose value is a list
Has(schema, key) == key \in DOMAIN schema /\ Len(schema[key]) > 0

\* schema.get(key) is truthy, for a key whose value is a dict or not a dict
HasDict(schema, key) == key \in DOMAIN schema /\ DOMAIN schema[key] # {}

\* the raw_type of the "Handle type" block: "" for None
RawType(schema) ==
    IF "type" \notin DOMAIN schema THEN ""
    ELSE IF schema.type.list
    THEN LET non_null == SelectSeq(schema.type.names, LAMBDA t : t # "null")
         IN  IF non_null # <<>> THEN non_null[1] ELSE "string"
    ELSE schema.type.names[1]

\* result.update(merged)
Update(result, merged) == merged @@ result

\* the first variant that is a dict and whose type is not "null", 0 for none
FirstVariant(variants) ==
    LET ok == {i \in DOMAIN variants :
                 /\ IsDict(variants[i])
                 /\ ~("type" \in DOMAIN variants[i]
                      /\ variants[i].type = TypeName("null"))}
    IN  IF ok = {} THEN 0 ELSE SetMin(ok)

RECURSIVE _sanitize_schema(_)

\* the sanitized properties: the properties whose schema is a dict
SanitizedProps(props) ==
    LET kept == {name \in DOMAIN props : ~IsNone(_sanitize_schema(props[name]))}
    IN  [name \in kept |-> _sanitize_schema(props[name])]

\* the "Required" block
Required(result, req) ==
    IF "properties" \in DOMAIN result
    THEN SelectSeq(req, LAMBDA r : r \in DOMAIN result.properties)
    ELSE req

_sanitize_schema(schema) ==
    IF ~IsDict(schema) THEN NoSchema
    ELSE
    LET typed ==
            IF RawType(schema) \in DOMAIN _TYPE_MAP
            THEN [type |-> _TYPE_MAP[RawType(schema)]]
            ELSE EmptyDict
        variant(result, key) ==
            IF Has(schema, key)
            THEN LET i == FirstVariant(schema[key])
                     merged == IF i = 0 THEN result
                               ELSE Update(result, _sanitize_schema(schema[key][i]))
                 IN  IF "type" \in DOMAIN merged THEN merged
                     ELSE Update(merged, [type |-> "STRING"])
            ELSE result
        described(result) ==
            IF "description" \in DOMAIN schema
            THEN Update(result, [description |-> schema.description]) ELSE result
        enumerated(result) ==
            IF Has(schema, "enum") THEN Update(result, [enum |-> schema.enum]) ELSE result
        with_props(result) ==
            IF HasDict(schema, "properties")
               /\ DOMAIN SanitizedProps(schema.properties) # {}
            THEN Update(result, [properties |-> SanitizedProps(schema.properties)])
            ELSE result
        with_required(result) ==
            IF Has(schema, "required")
            THEN Update(result, [required |-> Required(result, schema.required)])
            ELSE result
        with_items(result) ==
            IF HasDict(schema, "items") /\ ~IsNone(_sanitize_schema(schema.items))
            THEN Update(result, [items |-> _sanitize_schema(schema.items)])
            ELSE result
        defaulted(result) ==
            IF "type" \in DOMAIN result THEN result
            ELSE Update(result, [type |-> IF "properties" \in DOMAIN result
                                          THEN "OBJECT" ELSE "STRING"])
    IN  defaulted(with_items(with_required(with_props(enumerated(described(
            variant(variant(typed, "anyOf"), "oneOf")))))))

MaxDepth == 1

\* property schemas: a described string with a default, a nullable integer
\* with a format, an anyOf of null and boolean, the empty schema, and true
LeafSchemas ==
    {[type |-> TypeName("string"), description |-> "d", default |-> "x"],
     [type |-> TypeList(<<"null", "integer">>), format |-> "int32"],
     [anyOf |-> <<[type |-> TypeName("null")], [type |-> TypeName("boolean")]>>],
     EmptyDict,
     NotADict}

\* object schemas: with or without "type", properties a and b, a required
\* list and additionalProperties
ObjectSchemas ==
    {type @@ props @@ req @@ extra :
        type \in {EmptyDict, [type |-> TypeName("object")]},
        props \in {EmptyDict, [properties |-> EmptyDict]}
                 \cup {[properties |-> [a |-> l]] : l \in LeafSchemas}
                 \cup {[properties |-> [a |-> l, b |-> m]] : l, m \in LeafSchemas},
        req \in {EmptyDict} \cup {[required |-> r] :
                                    r \in {<<>>, <<"a">>, <<"a", "b">>, <<"c">>}},
        extra \in {EmptyDict, [additionalProperties |-> FALSE]}}

\* the schemas nested to this depth: an array of such objects, and an
\* object with one such property
RECURSIVE SchemasTo(_)
SchemasTo(depth) ==
    IF depth = 0 THEN ObjectSchemas
    ELSE LET inner == SchemasTo(depth - 1) IN
         inner
         \cup {[type |-> TypeName("array"), items |-> o, minItems |-> 1] : o \in inner}
         \cup {[properties |-> [a |-> o], required |-> <<"a", "b">>] : o \in inner}

\* _convert_tools sanitizes the parameters of a tool of the request
Sanitize(schema) ==
    /\ IsNone(sanitized.schema)
    /\ sanitized' = [schema |-> schema, result |-> _sanitize_schema(schema)]
    /\ UNCHANGED <<poolVars, costVars, acctVars, genVars, guiVars, statVars, usageVars,
                   endVars, prep>>

InitSanitize == InitGenerate({DefaultPool}, {Name("antigravity", "gemini-2.5-flash-thinking")}, {1}, {FALSE})

NextSanitize == \E schema \in SchemasTo(MaxDepth) : Sanitize(schema)

SpecSanitize == InitSanitize /\ [][NextSanitize]_vars

\* the schemas inside a sanitized schema, itself included
RECURSIVE Nested(_)
Nested(result) ==
    {result}
    \cup (IF "properties" \in DOMAIN result
          THEN UNION {Nested(result.properties[name]) : name \in DOMAIN result.properties}
          ELSE {})
    \cup (IF "items" \in DOMAIN result THEN Nested(result.items) ELSE {})

\* C35: in every schema that tool-schema sanitization produces, at every
\* nesting level, each name listed in required is a key of that schema's
\* sanitized properties, and none of the unsupported keywords appears as a
\* key.
C35_SanitizedSchema ==
    ~IsNone(sanitized.result) =>
        \A s \in Nested(sanitized.result) :
            /\ DOMAIN s \cap _UNSUPPORTED_KEYWORDS = {}
            /\ "required" \in DOMAIN s =>
                   \A i \in DOMAIN s.required :
                       /\ "properties" \in DOMAIN s
                       /\ s.required[i] \in DOMAIN s.properties

----------------------------------------------------------------------------
(* The usage of one turn in the two modes: esprit/llm/llm.py and            *)
(* esprit/providers/antigravity_format.py                                   *)
(*                                                                          *)
(* A provider reports the prompt tokens, the part of them read from its     *)
(* cache, and the output tokens.  Mode A sees them as the usage of the      *)
(* LiteLLM response, Mode B as the usageMetadata of a chunk.                *)

\* um.get(key, 0)
GetCount(um, key) == IF key \in DOMAIN um THEN um[key] ELSE 0

\* _parse_usage
_parse_usage(um) ==
    LET prompt == GetCount(um, "promptTokenCount")
        cached == GetCount(um, "cachedContentTokenCount")
        output == GetCount(um, "candidatesTokenCount")
    IN  [input_tokens |-> Max(0, prompt - cached), output_tokens |-> output,
         cached_tokens |-> cached]

\* _update_usage_stats: the usage of the response as the three counts that
\* are added and priced; a response without usage counts as zeros
_update_usage_stats(stats, model_name, response) ==
    LET usage ==
            IF "usage" \in DOMAIN response
            THEN [input_tokens |-> response.usage.prompt_tokens,
                  output_tokens |-> response.usage.completion_tokens,
                  cached_tokens |-> response.usage.prompt_tokens_details.cached_tokens]
            ELSE [input_tokens |-> 0, output_tokens |-> 0, cached_tokens |-> 0]
    IN  AddUsage(stats, model_name, usage)

\* the end of _do_antigravity_stream: total_usage is what _parse_usage made
\* of the last usageMetadata; an empty total_usage adds nothing
UpdateAfterStreamB(stats, model_name, total_usage) ==
    IF total_usage = NoUsage THEN stats
    ELSE AddUsage(stats, model_name, total_usage)

\* what a provider may report: prompt, cached and output tokens
Reported ==
    {[prompt |-> 0, cached |-> 0, output |-> 200],
     [prompt |-> 1000, cached |-> 0, output |-> 200],
     [prompt |-> 1000, cached |-> 400, output |-> 200],
     [prompt |-> _TIERED_THRESHOLD + 100000, cached |-> 400, output |-> 0],
     [prompt |-> _TIERED_THRESHOLD + 100000, cached |-> _TIERED_THRESHOLD + 50000,
      output |-> 200]}

\* the reported usage as Mode A's response and as Mode B's usageMetadata
Response(r) ==
    [usage |-> [prompt_tokens |-> r.prompt, completion_tokens |-> r.output,
                prompt_tokens_details |-> [cached_tokens |-> r.cached]]]
UsageMetadata(r) ==
    [promptTokenCount |-> r.prompt, cachedContentTokenCount |-> r.cached,
     candidatesTokenCount |-> r.output]

\* a Mode A turn ends: _stream calls _update_usage_stats with the response
TurnEndsA(r) ==
    /\ ~_is_antigravity(config.model_name, pool)
    /\ turn.turns < MaxTurns
    /\ llm' = [llm EXCEPT !.stats = _update_usage_stats(@, config.model_name, Response(r))]
    /\ turn' = [pc |-> "idle", done |-> 0, turns |-> turn.turns + 1, mode |-> "A",
                reported |-> r, before |-> llm.stats]
    /\ UNCHANGED <<poolVars, costVars, acctVars, config, gen, obs, guiVars, seen,
                   usageVars, endVars, lateVars>>

\* a Mode B turn ends: the stream carried r as its last usageMetadata
TurnEndsB(r) ==
    /\ _is_antigravity(config.model_name, pool)
    /\ turn.turns < MaxTurns
    /\ llm' = [llm EXCEPT !.stats =
                    UpdateAfterStreamB(@, config.model_name, _parse_usage(UsageMetadata(r)))]
    /\ turn' = [pc |-> "idle", done |-> 0, turns |-> turn.turns + 1, mode |-> "B",
                reported |-> r, before |-> llm.stats]
    /\ UNCHANGED <<poolVars, costVars, acctVars, config, gen, obs, guiVars, seen,
                   usageVars, endVars, lateVars>>

\* a bare Cloud Code model is Mode B with an account in the pool and Mode A
\* without one
ModeModels ==
    {Name("", "claude-opus-4-6-thinking"), Name("", "gemini-3-pro-high"),
     Name("antigravity", "claude-opus-4-6-thinking"), Name("openai", "gpt-5")}

ModePools ==
    {DefaultPool,
     [accounts |-> <<AccountEntry("a@x", 1)>>, active_index |-> 0, strategy |-> "sticky"]}

InitModes == InitGenerate(ModePools, ModeModels, {1}, {FALSE})

NextModes ==
    \/ \E r \in Reported : TurnEndsA(r)
    \/ \E r \in Reported : TurnEndsB(r)

SpecModes == InitModes /\ [][NextModes]_vars

----------------------------------------------------------------------------
(* C36: one turn costs the same in both modes.                              *)

\* the cost the claim gives a turn: the uncached prompt tokens once at the
\* input rate, the cached ones at the cache-read rate, the output tokens at
\* the output rate
ClaimedTurnCost(model, r) ==
    LET p == get_pricing(model)
    IN  IF p = NoPricing THEN 0
        ELSE ClaimedTierCost(r.prompt - r.cached, p.input_cost, p.input_cost_above)
             + ClaimedTierCost(r.cached, p.cache_read_cost, p.cache_read_cost_above)
             + ClaimedTierCost(r.output, p.output_cost, p.output_cost_above)

TurnEnded == "mode" \in DOMAIN turn

\* C36: for the same usage reported by the provider (P prompt tokens of
\* which C were read from cache, O output tokens) a Mode B turn adds to the
\* accumulated cost what a Mode A turn adds: P - C tokens charged once at the
\* input rate and C tokens at the cache-read rate, besides the output.
C36_SameCostBothModes ==
    TurnEnded =>
        /\ llm.stats.cost - turn.before.cost
             = _update_usage_stats(turn.before, config.model_name,
                                   Response(turn.reported)).cost - turn.before.cost
        /\ llm.stats.cost - turn.before.cost
             = ClaimedTurnCost(config.model_name, turn.reported)

----------------------------------------------------------------------------
(* A poll that raises: esprit/gui/tracer_bridge.py                          *)
(*                                                                          *)
(* _poll_loop catches whatever _detect_deltas and _broadcast raise, logs it *)
(* and sleeps again.  _detect_deltas raises at its stats when _get_stats or *)
(* json.dumps(stats) does; _broadcast raises before its first send when     *)
(* json.dumps of the payload does.                                          *)

\* the trackers _detect_deltas has assigned when it reaches its stats
TrackedBeforeStats(b, t) ==
    [b EXCEPT
        !.last_agent_count = Cardinality(DOMAIN t.agents),
        !.last_agent_statuses = t.agents,
        !.last_tool_count = Len(t.tool_executions),
        !.last_chat_count = Len(t.chat_messages),
        !.last_vuln_count = Len(t.vulnerability_reports),
        !.last_streaming = t.streaming_content,
        !.last_screenshot_ids = t.latest_browser_screenshots]

\* _poll_loop wakes with a client and the poll raises: at "stats" inside
\* _detect_deltas, at "payload" in _broadcast, which runs when there are
\* deltas; the except clause logs and the loop sleeps again
PollRaises(at) ==
    /\ poll.pc = "sleep"
    /\ poll.polls < MaxPolls
    /\ bridge.clients # <<>>
    /\ now' = now + POLL_INTERVAL
    /\ \/ /\ at = "stats"
          /\ bridge' = TrackedBeforeStats(bridge, tracer)
       \/ /\ at = "payload"
          /\ _detect_deltas(bridge, tracer, now') # <<>>
          /\ bridge' = Tracked(bridge, tracer, now')
    /\ poll' = [poll EXCEPT !.polls = @ + 1]
    /\ UNCHANGED <<pool, accounts_file, ticks, marks, rotRun, prevMark, costVars,
                   acctVars, genVars, tracer, ws, statVars, usageVars, endVars, lateVars>>

NextPolls ==
    \/ log_chat_message
    \/ add_vulnerability_report
    \/ update_streaming_content("agent-1")
    \/ AddOutputTokens(100)
    \/ Accept("ws1")
    \/ Subscribe("ws1")
    \/ PollWake
    \/ \E at \in {"stats", "payload"} : PollRaises(at)
    \/ BroadcastSend
    \/ BroadcastEnd

SpecPolls == InitFanout /\ [][NextPolls]_vars

----------------------------------------------------------------------------
(* C37: what a poll consumes it sends.                                      *)

\* the poll of this step hands a delta of this type to _broadcast, which
\* starts on the clients of the list
Sends(type) ==
    /\ poll'.pc = "broadcast"
    /\ poll'.queue = bridge.clients
    /\ OfType(poll'.deltas, type) # <<>>

\* C37: a poll never consumes a change without sending it: when a poll
\* advances the tracker of the chat messages, the vulnerability reports or
\* the streaming content past a change, the batch it broadcasts carries the
\* delta of that change, also when a later part of the same poll raises.
C37_ConsumedIsSent ==
    [][/\ bridge'.last_chat_count # bridge.last_chat_count => Sends("chat_update")
       /\ bridge'.last_vuln_count # bridge.last_vuln_count
            => Sends("vulnerability_update")
       /\ bridge'.last_streaming # bridge.last_streaming => Sends("streaming_update")]_vars

----------------------------------------------------------------------------
(* active_index while accounts come and go:                                 *)
(* esprit/providers/account_pool.py                                         *)

\* one or two accounts loaded, then logins, logouts, selections, 429s and
\* rotations in any order
InitActive ==
    /\ pool \in LoadablePools(1 .. 2,
                    <<{AccountEntry("a@x", 1)}, {AccountEntry("b@y", 1)}>>)
    /\ InitVarsPool
    /\ InitQuiet
    /\ IdleDispatch

NextActive ==
    \/ \E email \in Emails : AddAccount(email, 1)
    \/ \E email \in Emails : RemoveAccount(email)
    \/ \E model \in Models \cup {NoModel} : GetBestAccount(model)
    \/ \E model \in Models : MarkRateLimited("a@x", model, 30)
    \/ \E model \in Models \cup {NoModel} : Rotate(model)

SpecActive == InitActive /\ [][NextActive]_vars

----------------------------------------------------------------------------
(* C38: active_index designates an account of the pool.                     *)

\* the email of the account active_index designates, NoEmail when it
\* designates none
Designated(p) ==
    IF p.active_index \in Indices(p.accounts)
    THEN At(p.accounts, p.active_index).email
    ELSE NoEmail

\* add_account or remove_account is called for this email
AddsOrRemoves(email) == AddAccount(email, 1) \/ RemoveAccount(email)

\* C38: after any sequence of add_account, remove_account, get_best_account,
\* mark_rate_limited and rotate, active_index is a valid position of the
\* accounts whenever the pool is not empty, and adding or removing an account
\* with another email does not change which account, by email, active_index
\* designates.
C38_ActiveIndex ==
    [][/\ pool'.accounts # <<>> => pool'.active_index \in Indices(pool'.accounts)
       /\ \A email \in Emails :
            (AddsOrRemoves(email) /\ Designated(pool) \notin {NoEmail, email})
                => Designated(pool') = Designated(pool)]_vars

----------------------------------------------------------------------------
(* generate when every attempt fails: esprit/llm/llm.py                     *)

\* one or two accounts, the second possibly disabled, or none
FailingPools ==
    {DefaultPool}
    \cup LoadablePools(1 .. 2,
            <<{AccountEntry("a@x", 1)},
              {AccountEntry("b@y", 1), [AccountEntry("b@y", 1) EXCEPT !.enabled = FALSE]}>>)

\* a Mode A model of a provider with a pool, and a Mode B model with two
\* fallbacks after it in the chain
FailingModels == {Name("openai", "gpt-5"), Name("antigravity", "gemini-2.5-flash")}

InitFailing == InitGenerate(FailingPools, FailingModels, {1}, BOOLEAN)

\* one generate call; every request and every stream ends in an exception
NextFailing ==
    \/ GenerateCall(1)
    \/ BeginAttemptA
    \/ BeginAttemptB
    \/ \E code \in {401, 429, 500} : RequestFailsA(code)
    \/ \E code \in {401, 429} : StatusErrorB(code)
    \/ ConnectErrorB
    \/ StreamOpens
    \/ StreamFails(None)

SpecFailing == InitFailing /\ [][NextFailing]_vars

\* the event loop runs the coroutine, and every request and every stream
\* comes to an outcome
FairFailing == SpecFailing /\ WF_vars(NextFailing)

----------------------------------------------------------------------------
(* C39: generate terminates when every attempt fails.                       *)

\* no cooldown and no rate limit of an account has expired
NoCooldownExpired ==
    \A k \in DOMAIN pool.accounts :
        LET acct == pool.accounts[k] IN
        /\ acct.cooling_until # None => acct.cooling_until > now
        /\ \A m \in DOMAIN acct.rate_limits : acct.rate_limits[m] > now

\* the models of the call: those it fell back from, then the current one
ModelsOfCall == Append(obs.left, Bare(config.model_name))

\* C39: when every attempt fails, generate terminates: provided no cooldown
\* expires, the retries after a 429 rotation, which are not counted, are at
\* most as many as the pool has accounts, each model gets at most
\* max_retries + 1 counted attempts, no model of the fallback chain is taken
\* twice, and the call ends by raising LLMRequestFailedError.
C39_GenerateTerminates ==
    /\ [](NoCooldownExpired =>
            /\ obs.rotations <= Len(pool.accounts)
            /\ obs.most <= config.max_retries + 1
            /\ \A i, j \in DOMAIN ModelsOfCall :
                    ModelsOfCall[i] = ModelsOfCall[j] => i = j)
    /\ (gen.pc = "loop" ~> gen.pc = "raised")

\* C39 witness: a call that rotated, spent every counted attempt on a model,
\* fell back through the rest of the chain and raised
C39_Witness ==
    /\ gen.pc = "raised"
    /\ obs.rotations >= 1
    /\ obs.most = config.max_retries + 1
    /\ Len(obs.left) = 2

----------------------------------------------------------------------------
(* C40: a handler that has ended has no subscriber.                         *)

\* C40: whenever a websocket handler has ended (the client disconnected, the
\* handler failed, also while building or sending the full_state frame, a
\* heartbeat could not be sent, or the server stopped) its client is no
\* longer in the subscriber list, and no client is in the list twice.
C40_EndedUnsubscribed ==
    /\ \A c \in Clients : ws[c].pc = "done" => c \notin Elements(bridge.clients)
    /\ \A i, j \in DOMAIN bridge.clients : bridge.clients[i] = bridge.clients[j] => i = j

\* C40 witness: one handler has ended after its client was subscribed and
\* served, the other client is still subscribed
C40_Witness ==
    \E c, d \in Clients :
        /\ ws[c].pc = "done"
        /\ ws[c].first = "full_state"
        /\ ws[d].pc = "open"
        /\ bridge.clients = <<d>>

====
